---------------------------- MODULE Spec2Model ----------------------------
(***************************************************************************)
(* A model of the repository analysis pipeline of                          *)
(* .local/bin/ai_tools/codebase_analyser.py: the path filter, the language *)
(* classifier, the complexity scorer, the pattern tagger, the file record  *)
(* builder, the project aggregator, the context synthesizer and main().    *)
(*                                                                         *)
(* Strings the code inspects character by character (paths, suffixes,      *)
(* ignore substrings, glob patterns) are sequences of one-character        *)
(* strings.  File content is represented by what each regular expression   *)
(* or the parser finds in it: the number of newlines, the number of        *)
(* matches of every complexity pattern, the matches of every tagging rule, *)
(* the framework signatures that match, and the extractor outputs.         *)
(***************************************************************************)
EXTENDS Integers, Sequences, FiniteSets, TLC

(***************************************************************************)
(* Bounds of the model.                                                    *)
(***************************************************************************)
\* number of catalogue groups concatenated into a small tree
MaxGroups == 2
\* number of files in the generated large trees
MaxBulk == 20
\* the generated score trees have files of up to 100 * MaxLineSteps + 10 lines
MaxLineSteps == 6
\* and up to 5 * MaxMatchSteps matches of the complexity patterns
MaxMatchSteps == 6
\* number of times the command is run over the same tree
MaxRuns == 2

(***************************************************************************)
(* Generic helpers.                                                        *)
(***************************************************************************)
Min(a, b) == IF a <= b THEN a ELSE b

Range(s) == {s[i] : i \in 1..Len(s)}

\* s[-n:] in place of s[:n]
Take_Tail(s, n) == SubSeq(s, Len(s) - Min(Len(s), n) + 1, Len(s))

\* s[:n]
Take(s, n) == SubSeq(s, 1, Min(Len(s), n))

RECURSIVE Flatten(_)
Flatten(ss) == IF ss = <<>> THEN <<>> ELSE Head(ss) \o Flatten(Tail(ss))

RECURSIVE SumSeq(_)
SumSeq(s) == IF s = <<>> THEN 0 ELSE Head(s) + SumSeq(Tail(s))

(***************************************************************************)
(* Strings as sequences of characters.                                     *)
(***************************************************************************)
UpperChars == <<"A","B","C","D","E","F","G","H","I","J","K","L","M","N","O","P","Q","R","S","T","U","V","W","X","Y","Z">>
LowerChars == <<"a","b","c","d","e","f","g","h","i","j","k","l","m","n","o","p","q","r","s","t","u","v","w","x","y","z">>

\* str.lower() on one character
LowerChar(c) ==
    IF \E i \in 1..26 : UpperChars[i] = c
    THEN LowerChars[CHOOSE i \in 1..26 : UpperChars[i] = c]
    ELSE c

\* str.lower()
Lower(s) == [i \in 1..Len(s) |-> LowerChar(s[i])]

\* sub in s
Contains(s, sub) ==
    \E i \in 0..(Len(s) - Len(sub)) : SubSeq(s, i + 1, i + Len(sub)) = sub

\* s.startswith(p)
StartsWith(s, p) == Len(p) <= Len(s) /\ SubSeq(s, 1, Len(p)) = p

\* the positions of the character c in s
Positions(s, c) == {i \in 1..Len(s) : s[i] = c}

Max(S) == CHOOSE x \in S : \A y \in S : y <= x

\* pathlib: PurePath.name, the last component of the path
Name(p) ==
    LET sl == Positions(p, "/")
    IN  IF sl = {} THEN p ELSE SubSeq(p, Max(sl) + 1, Len(p))

\* pathlib: PurePath.suffix, the part of the name from its last dot; empty
\* when the name has no dot, starts with its only dot or ends with a dot
Suffix(p) ==
    LET n == Name(p)
        d == Positions(n, ".")
    IN  IF d = {} THEN <<>>
        ELSE IF Max(d) = 1 \/ Max(d) = Len(n) THEN <<>>
        ELSE SubSeq(n, Max(d), Len(n))

\* pathlib: PurePath.stem
Stem(p) ==
    LET n == Name(p)
    IN  SubSeq(n, 1, Len(n) - Len(Suffix(p)))

\* the path below the root in place of the full path
Join_BelowRoot(root, rel) == rel

\* pathlib: root / rel
Join(root, rel) == root \o <<"/">> \o rel

RECURSIVE GlobMatch(_, _)
\* fnmatch of a name against a pattern whose only wildcard is '*'
GlobMatch(pat, s) ==
    IF pat = <<>> THEN s = <<>>
    ELSE IF Head(pat) = "*"
         THEN GlobMatch(Tail(pat), s)
              \/ (s # <<>> /\ GlobMatch(pat, Tail(s)))
         ELSE s # <<>> /\ Head(s) = Head(pat) /\ GlobMatch(Tail(pat), Tail(s))

\* the characters str.strip() removes
Whitespace == {" ", "\t", "\n", "\r"}

RECURSIVE LStrip(_)
\* str.lstrip()
LStrip(s) ==
    IF s # <<>> /\ Head(s) \in Whitespace THEN LStrip(Tail(s)) ELSE s

RECURSIVE RStrip(_)
\* str.rstrip()
RStrip(s) ==
    IF s # <<>> /\ s[Len(s)] \in Whitespace
    THEN RStrip(SubSeq(s, 1, Len(s) - 1))
    ELSE s

\* str.strip()
Strip(s) == RStrip(LStrip(s))

\* the start positions of sep in s
Occurrences(s, sep) ==
    {i \in 1..(Len(s) - Len(sep) + 1) : SubSeq(s, i, i + Len(sep) - 1) = sep}

Least(S) == CHOOSE x \in S : \A y \in S : x <= y

\* s.split(sep)[0]: s up to the first occurrence of sep, all of s without
SplitFirst(s, sep) ==
    IF Occurrences(s, sep) = {} THEN s
    ELSE SubSeq(s, 1, Least(Occurrences(s, sep)) - 1)

(***************************************************************************)
(* The tables of CodebaseAnalyzer.__init__.                                *)
(***************************************************************************)
code_extensions ==
    { <<<<".","p","y">>, "python">>, <<<<".","j","s">>, "javascript">>, <<<<".","t","s">>, "typescript">>,
      <<<<".","j","s","x">>, "react">>, <<<<".","t","s","x">>, "react">>, <<<<".","v","u","e">>, "vue">>,
      <<<<".","j","a","v","a">>, "java">>, <<<<".","c","p","p">>, "cpp">>, <<<<".","c">>, "c">>,
      <<<<".","c","s">>, "csharp">>, <<<<".","g","o">>, "go">>, <<<<".","r","s">>, "rust">>,
      <<<<".","p","h","p">>, "php">>, <<<<".","r","b">>, "ruby">>, <<<<".","s","w","i","f","t">>, "swift">>,
      <<<<".","k","t">>, "kotlin">>, <<<<".","h","t","m","l">>, "html">>, <<<<".","c","s","s">>, "css">>,
      <<<<".","s","c","s","s">>, "scss">>, <<<<".","s","q","l">>, "sql">> }

ignore_patterns ==
    { <<"n","o","d","e","_","m","o","d","u","l","e","s">>, <<".","g","i","t">>, <<"_","_","p","y","c","a","c","h","e","_","_">>, <<".","v","e","n","v">>, <<"v","e","n","v">>,
      <<"d","i","s","t">>, <<"b","u","i","l","d">>, <<".","n","e","x","t">>, <<".","n","u","x","t">>, <<"t","a","r","g","e","t">>, <<"b","i","n">>,
      <<"o","b","j">>, <<".","D","S","_","S","t","o","r","e">>, <<"*",".","p","y","c">>, <<"*",".","c","l","a","s","s">>, <<"*",".","o">> }

\* the keys of framework_patterns, in dictionary order
framework_patterns ==
    << "React", "Vue", "Angular", "Django", "Flask", "Express", "FastAPI",
       "Spring", "Next.js", "Nuxt", "Svelte" >>

\* the number of signatures of every framework
NumSignatures == 3

common_entries ==
    << <<"m","a","i","n",".","p","y">>, <<"a","p","p",".","p","y">>, <<"i","n","d","e","x",".","j","s">>, <<"s","e","r","v","e","r",".","j","s">>, <<"m","a","i","n",".","j","s">>,
       <<"i","n","d","e","x",".","t","s">>, <<"m","a","i","n",".","t","s">>, <<"A","p","p",".","j","s">>, <<"A","p","p",".","t","s","x">>, <<"i","n","d","e","x",".","h","t","m","l">> >>

config_patterns ==
    << <<"p","a","c","k","a","g","e",".","j","s","o","n">>, <<"r","e","q","u","i","r","e","m","e","n","t","s",".","t","x","t">>, <<"P","i","p","f","i","l","e">>, <<"p","o","m",".","x","m","l">>,
       <<"b","u","i","l","d",".","g","r","a","d","l","e">>, <<"C","a","r","g","o",".","t","o","m","l">>, <<"c","o","m","p","o","s","e","r",".","j","s","o","n">>, <<"s","e","t","u","p",".","p","y">>,
       <<".","e","n","v","*">>, <<"c","o","n","f","i","g",".","*">>, <<"s","e","t","t","i","n","g","s",".","*">>, <<"*",".","c","o","n","f","i","g",".","*">>, <<"d","o","c","k","e","r","*">>,
       <<"w","e","b","p","a","c","k",".","c","o","n","f","i","g",".","*">>, <<"v","i","t","e",".","c","o","n","f","i","g",".","*">>, <<"n","e","x","t",".","c","o","n","f","i","g",".","*">> >>

\* the rules of the scorer and of the tagger, by count
NumComplexPatterns == 14
NumApiPatterns == 5
NumDbPatterns == 3
NumComponentPatterns == 2

\* the truncation limits and thresholds of analyze_file and
\* create_resumable_context
ListLimit == 20
KeyPatternLimit == 10
KeyComponentLimit == 15
KeyComponentThreshold == 25
CriticalLimit == 10
CriticalThreshold == 40
EndpointLimit == 20
ModelLimit == 15
UiLimit == 20
DocLimit == 10
OverviewThreshold == 30
DependencyLimit == 20
OverviewDependencyLimit == 10
OverviewLimit == 10
LineDivisor == 10
BaseCap == 50
PointsPerMatch == 2
ScoreCap == 100

(***************************************************************************)
(* Path filter and language classifier.                                    *)
(***************************************************************************)
\* should_ignore_path without the test of the name
should_ignore_path_SubstringOnly(path) ==
    \E pattern \in ignore_patterns : Contains(path, pattern)

\* should_ignore_path: path is the full path, root included
should_ignore_path(path) ==
    \E pattern \in ignore_patterns :
        Contains(path, pattern) \/ StartsWith(Name(path), <<".">>)

\* the test without .lower()
IsCodeSuffix_CaseSensitive(suffix) == \E e \in code_extensions : e[1] = suffix

\* the test `suffix.lower() in self.code_extensions`
IsCodeSuffix(suffix) == \E e \in code_extensions : e[1] = Lower(suffix)

\* detect_language
detect_language(path) ==
    IF IsCodeSuffix(Suffix(path))
    THEN (CHOOSE e \in code_extensions : e[1] = Lower(Suffix(path)))[2]
    ELSE "text"

(***************************************************************************)
(* File content, as seen by the regular expressions and the parser.        *)
(*   nl    the number of newline characters                                *)
(*   cx    cx[i] is the number of matches of complex_patterns[i]           *)
(*   sig   the pairs <<framework, i>> whose i-th signature matches         *)
(*   api   api[i] is the list of matches of api_patterns[i]                *)
(*   db    db[i] is the list of matches of db_patterns[i]                  *)
(*   comp  comp[i] is the list of matches of component_patterns[i]         *)
(*   py    ok is FALSE when ast.parse raises; imports, classes and         *)
(*         functions are the declarations ast.walk yields, or, for a file  *)
(*         that does not parse, the declarations its text holds            *)
(*   js    what the import, export and function rules find; a match of an  *)
(*         export rule is the list of its comma-separated, stripped,       *)
(*         non-empty parts                                                 *)
(*   json  what json.load and the two data.get calls yield: ok is FALSE    *)
(*         when json.load raises or the result is not an object holding    *)
(*         objects; the two maps are dictionaries of name and version      *)
(*   lines the lines iterating the text file yields, line ends included    *)
(*   read_error  0, or the number k of the line whose read raises: the     *)
(*         loop over the file has handled the lines before k by then       *)
(***************************************************************************)
NoMatches(n) == [i \in 1..n |-> <<>>]

EmptyContent ==
    [ nl   |-> 0,
      cx   |-> [i \in 1..NumComplexPatterns |-> 0],
      sig  |-> {},
      api  |-> NoMatches(NumApiPatterns),
      db   |-> NoMatches(NumDbPatterns),
      comp |-> NoMatches(NumComponentPatterns),
      py   |-> [ok |-> TRUE, imports |-> <<>>, classes |-> <<>>,
                functions |-> <<>>],
      js   |-> [imports |-> NoMatches(3), exports |-> NoMatches(3),
                functions |-> NoMatches(4)],
      json |-> [ok |-> FALSE, dependencies |-> <<>>, devDependencies |-> <<>>],
      lines |-> <<>>,
      read_error |-> 0 ]

(***************************************************************************)
(* Structural extractors.  Each returns <<imports, classes, functions>>.   *)
(***************************************************************************)
\* extract_python_info collecting declarations whether or not the parse
\* succeeds
extract_python_info_Unparsed(content) ==
    << content.py.imports, content.py.classes, content.py.functions >>

\* extract_python_info: the lists are filled only after a successful parse
extract_python_info(content) ==
    IF content.py.ok
    THEN << content.py.imports, content.py.classes, content.py.functions >>
    ELSE << <<>>, <<>>, <<>> >>

\* the names one export rule contributes: those of its first match only
\* the names of every match of an export rule
ExportNames_AllMatches(matches) == Flatten(matches)

ExportNames(matches) == IF matches # <<>> THEN matches[1] ELSE <<>>

\* extract_javascript_info
extract_javascript_info(content) ==
    << Flatten(content.js.imports),
       Flatten([i \in 1..3 |-> ExportNames(content.js.exports[i])]),
       Flatten(content.js.functions) >>

(***************************************************************************)
(* Complexity scorer.                                                      *)
(***************************************************************************)
\* the score without the cap on the contribution of the length
calculate_complexity_score_BaseUncapped(content) ==
    Min((content.nl + 1) \div LineDivisor
        + SumSeq([i \in 1..NumComplexPatterns |-> content.cx[i] * PointsPerMatch]),
        ScoreCap)

\* the score without its final cap
calculate_complexity_score_Uncapped(content) ==
    Min((content.nl + 1) \div LineDivisor, BaseCap)
    + SumSeq([i \in 1..NumComplexPatterns |-> content.cx[i] * PointsPerMatch])

\* calculate_complexity_score
calculate_complexity_score(content) ==
    LET lines == content.nl + 1
        base  == Min(lines \div LineDivisor, BaseCap)
        extra == SumSeq([i \in 1..NumComplexPatterns |->
                            content.cx[i] * PointsPerMatch])
    IN  Min(base + extra, ScoreCap)

(***************************************************************************)
(* Pattern tagger and framework detection.                                 *)
(***************************************************************************)
Tag(cat, matches) == [i \in 1..Len(matches) |-> [cat |-> cat, val |-> matches[i]]]

JsFamily == {"javascript", "typescript", "react"}

\* extract_key_patterns with the component rules run for every language
extract_key_patterns_AnyLanguage(content, language) ==
    Tag("API_ENDPOINT", Flatten(content.api))
    \o Tag("DB_MODEL", Flatten(content.db))
    \o Tag("REACT_COMPONENT", Flatten(content.comp))

\* extract_key_patterns with the model rules run before the endpoint rules
extract_key_patterns_ModelsFirst(content, language) ==
    Tag("DB_MODEL", Flatten(content.db))
    \o Tag("API_ENDPOINT", Flatten(content.api))
    \o (IF language \in JsFamily
        THEN Tag("REACT_COMPONENT", Flatten(content.comp))
        ELSE <<>>)

\* extract_key_patterns
extract_key_patterns(content, language) ==
    Tag("API_ENDPOINT", Flatten(content.api))
    \o Tag("DB_MODEL", Flatten(content.db))
    \o (IF language \in JsFamily
        THEN Tag("REACT_COMPONENT", Flatten(content.comp))
        ELSE <<>>)

\* detect_frameworks without the break: one entry per matching signature
detect_frameworks_NoBreak(content) ==
    LET Count(fw) == Cardinality({i \in 1..NumSignatures : <<fw, i>> \in content.sig})
    IN  Flatten([k \in 1..Len(framework_patterns) |->
                    [n \in 1..Count(framework_patterns[k]) |-> framework_patterns[k]]])

\* detect_frameworks: one entry per framework with a matching signature,
\* in the order of framework_patterns
detect_frameworks(content) ==
    LET Matches(fw) == \E i \in 1..NumSignatures : <<fw, i>> \in content.sig
    IN  SelectSeq(framework_patterns, Matches)

(***************************************************************************)
(* File record builder.                                                    *)
(*                                                                         *)
(* A filesystem entry below the root is                                    *)
(*   [path, kind, readable, size, mtime, content]                          *)
(* with path relative to the root, kind "file" or "dir", and readable      *)
(* FALSE when stat() or open() raises.                                     *)
(***************************************************************************)
\* the extractor output analyze_file truncates
ExtractorOutput(content, language) ==
    IF language = "python" THEN extract_python_info(content)
    ELSE IF language \in JsFamily THEN extract_javascript_info(content)
    ELSE << <<>>, <<>>, <<>> >>

\* analyze_file with lines the number of newlines, without the + 1
analyze_file_NewlineCount(repo_path, entry) ==
    IF should_ignore_path(Join(repo_path, entry.path)) \/ entry.kind # "file"
    THEN <<>>
    ELSE IF ~entry.readable THEN <<>>
    ELSE LET language     == detect_language(entry.path)
             content      == entry.content
             ext          == ExtractorOutput(content, language)
             complexity   == calculate_complexity_score(content)
             key_patterns == extract_key_patterns(content, language)
         IN  << [ path             |-> entry.path,
                  size             |-> entry.size,
                  lines            |-> content.nl,
                  file_type        |-> Suffix(entry.path),
                  language         |-> language,
                  imports          |-> Take(ext[1], ListLimit),
                  classes          |-> Take(ext[2], ListLimit),
                  functions        |-> Take(ext[3], ListLimit),
                  exports          |-> Take(ext[3], ListLimit),
                  key_patterns     |-> Take(key_patterns, KeyPatternLimit),
                  complexity_score |-> complexity,
                  last_modified    |-> entry.mtime ] >>

\* analyze_file: the empty sequence stands for None, a one-element sequence
\* for the FileInfo
analyze_file(repo_path, entry) ==
    IF should_ignore_path(Join(repo_path, entry.path)) \/ entry.kind # "file"
    THEN <<>>
    ELSE IF ~entry.readable THEN <<>>
    ELSE LET language     == detect_language(entry.path)
             content      == entry.content
             ext          == ExtractorOutput(content, language)
             complexity   == calculate_complexity_score(content)
             key_patterns == extract_key_patterns(content, language)
         IN  << [ path             |-> entry.path,
                  size             |-> entry.size,
                  lines            |-> content.nl + 1,
                  file_type        |-> Suffix(entry.path),
                  language         |-> language,
                  imports          |-> Take(ext[1], ListLimit),
                  classes          |-> Take(ext[2], ListLimit),
                  functions        |-> Take(ext[3], ListLimit),
                  exports          |-> Take(ext[3], ListLimit),
                  key_patterns     |-> Take(key_patterns, KeyPatternLimit),
                  complexity_score |-> complexity,
                  last_modified    |-> entry.mtime ] >>

(***************************************************************************)
(* Dictionaries keep insertion order: a dictionary is a sequence of        *)
(* <<key, value>> pairs with distinct keys.                                *)
(***************************************************************************)
DictKeys(d) == {d[i][1] : i \in 1..Len(d)}

DictGet(d, k, default) ==
    IF k \in DictKeys(d)
    THEN d[CHOOSE i \in 1..Len(d) : d[i][1] = k][2]
    ELSE default

\* an assignment that keeps the value of a key already there
DictSet_KeepFirst(d, k, v) ==
    IF k \in DictKeys(d) THEN d ELSE Append(d, <<k, v>>)

DictSet(d, k, v) ==
    IF k \in DictKeys(d)
    THEN [i \in 1..Len(d) |-> IF d[i][1] = k THEN <<k, v>> ELSE d[i]]
    ELSE Append(d, <<k, v>>)

DictValues(d) == [i \in 1..Len(d) |-> d[i][2]]

\* languages[language] = 1 in place of the increment
CountLanguage_SetOne(languages, language) == DictSet(languages, language, 1)

\* languages[language] = languages.get(language, 0) + 1
CountLanguage(languages, language) ==
    DictSet(languages, language, DictGet(languages, language, 0) + 1)

(***************************************************************************)
(* sorted(..., key=Key, reverse=True): descending and stable, equal keys   *)
(* keep their original order.                                              *)
(***************************************************************************)
RECURSIVE SortedOrder(_)
\* the indices of keys in the order sorted(..., reverse=True) puts them
SortedOrder(keys) ==
    IF keys = <<>> THEN <<>>
    ELSE LET n == Len(keys)
             r == SortedOrder(SubSeq(keys, 1, n - 1))
             k == Cardinality({i \in 1..Len(r) : keys[r[i]] >= keys[n]})
         IN  SubSeq(r, 1, k) \o <<n>> \o SubSeq(r, k + 1, Len(r))

Reorder(s, order) == [i \in 1..Len(s) |-> s[order[i]]]

\* sorted(files, key=lambda x: x.complexity_score, reverse=True)
SortedByScore(files) ==
    Reorder(files, SortedOrder([i \in 1..Len(files) |-> files[i].complexity_score]))

\* sorted(languages.items(), key=lambda x: x[1], reverse=True)
SortedByCount(d) == Reorder(d, SortedOrder([i \in 1..Len(d) |-> d[i][2]]))

\* [f for f in files if f.complexity_score > threshold]
AboveScore(files, threshold) ==
    LET Test(f) == f.complexity_score > threshold
    IN  SelectSeq(files, Test)

PathsOf(files) == [i \in 1..Len(files) |-> files[i].path]

(***************************************************************************)
(* Project aggregator: the filesystem probes of analyze_repository.  tree  *)
(* lists the entries below the root in the order rglob yields them.        *)
(***************************************************************************)
\* find_entry_points: (repo_path / entry).exists() for the fixed candidates
find_entry_points(tree) ==
    LET Exists(entry) == \E i \in 1..Len(tree) : tree[i].path = entry
    IN  SelectSeq(common_entries, Exists)

\* the entries one rglob(pattern) yields
RGlob(tree, pattern) ==
    LET Hit(e) == GlobMatch(pattern, Name(e.path))
    IN  SelectSeq(tree, Hit)

\* find_config_files
find_config_files(repo_path, tree) ==
    LET Kept(e) == ~should_ignore_path(Join(repo_path, e.path))
    IN  Flatten([p \in 1..Len(config_patterns) |->
                    PathsOf(SelectSeq(RGlob(tree, config_patterns[p]), Kept))])

\* [str(p.relative_to(repo_path)) for p in repo_path.rglob('*.md')][:10]
find_documentation(tree) == Take(PathsOf(RGlob(tree, <<"*",".","m","d">>)), DocLimit)

(***************************************************************************)
(* Dependency manifests.                                                   *)
(***************************************************************************)
RECURSIVE DictUpdate(_, _)
\* d.update(u), and {**d, **u}
DictUpdate(d, u) ==
    IF u = <<>> THEN d
    ELSE DictUpdate(DictSet(d, Head(u)[1], Head(u)[2]), Tail(u))

\* list(d.keys())
DictKeyList(d) == [i \in 1..Len(d) |-> d[i][1]]

\* the entries of the tree at a path
EntriesAt(tree, path) ==
    LET At(e) == e.path = path
    IN  SelectSeq(tree, At)

\* whether `with open(path)` yields a file object
Opens(e) == e.kind = "file" /\ e.readable

\* the package.json block with the development dependencies left out
NpmEntries_RuntimeOnly(content) ==
    [i \in 1..Len(content.json.dependencies) |->
        << <<"n","p","m",":">> \o content.json.dependencies[i][1],
           content.json.dependencies[i][2] >>]

\* {f"npm:{k}": v for k, v in {**deps, **dev_deps}.items()}
NpmEntries(content) ==
    LET merged == DictUpdate(DictUpdate(<<>>, content.json.dependencies),
                             content.json.devDependencies)
    IN  [i \in 1..Len(merged) |-> << <<"n","p","m",":">> \o merged[i][1], merged[i][2] >>]

\* line.split('==')[0].split('>=')[0].split('<=')[0]
BareName(line) ==
    SplitFirst(SplitFirst(SplitFirst(line, <<"=","=">>), <<">","=">>), <<"<","=">>)

\* the body of the loop over requirements.txt, for one line
RequirementLine(dependencies, raw) ==
    LET line == Strip(raw)
    IN  IF line # <<>> /\ ~StartsWith(line, <<"#">>)
        THEN DictSet(dependencies, <<"p","i","p",":">> \o BareName(line), line)
        ELSE dependencies

RECURSIVE RequirementLines(_, _)
RequirementLines(dependencies, lines) ==
    IF lines = <<>> THEN dependencies
    ELSE RequirementLines(RequirementLine(dependencies, Head(lines)), Tail(lines))

\* the lines the loop handles before the read raises, all of them when it
\* does not
LinesRead(content) ==
    IF content.read_error = 0 THEN content.lines
    ELSE SubSeq(content.lines, 1, Min(content.read_error - 1, Len(content.lines)))

\* whether the package.json block ends in its except clause
PackageJsonFails(tree) ==
    \E i \in 1..Len(tree) :
        /\ tree[i].path = <<"p","a","c","k","a","g","e",".","j","s","o","n">>
        /\ ~(Opens(tree[i]) /\ tree[i].content.json.ok)

\* whether the requirements.txt block ends in its except clause
RequirementsFail(tree) ==
    \E i \in 1..Len(tree) :
        /\ tree[i].path = <<"r","e","q","u","i","r","e","m","e","n","t","s",".","t","x","t">>
        /\ ~(Opens(tree[i]) /\ tree[i].content.read_error = 0)

\* extract_dependencies
extract_dependencies(tree) ==
    LET pkg == EntriesAt(tree, <<"p","a","c","k","a","g","e",".","j","s","o","n">>)
        req == EntriesAt(tree, <<"r","e","q","u","i","r","e","m","e","n","t","s",".","t","x","t">>)
        npm == IF pkg # <<>> /\ Opens(pkg[1]) /\ pkg[1].content.json.ok
               THEN DictUpdate(<<>>, NpmEntries(pkg[1].content))
               ELSE <<>>
    IN  IF req # <<>> /\ Opens(req[1])
        THEN RequirementLines(npm, LinesRead(req[1].content))
        ELSE npm

\* the lines extract_dependencies prints
DependencyDiagnostics(tree) ==
    (IF PackageJsonFails(tree) THEN <<"Error reading package.json">> ELSE <<>>)
    \o (IF RequirementsFail(tree)
        THEN <<"Error reading requirements.txt">> ELSE <<>>)

(***************************************************************************)
(* Context synthesizer.                                                    *)
(***************************************************************************)
\* the entries one file contributes to api_endpoints, database_models or
\* ui_components
TagItems(f, cat) ==
    LET IsCat(t) == t.cat = cat
        tags == SelectSeq(f.key_patterns, IsCat)
    IN  [i \in 1..Len(tags) |->
            [value |-> tags[i].val, file |-> f.path, language |-> f.language]]

\* the loop `for file_info in files: for pattern in file_info.key_patterns`
CollectTags(files, cat) ==
    Flatten([i \in 1..Len(files) |-> TagItems(files[i], cat)])

\* one element of key_components
Component(f) ==
    [ name         |-> Stem(f.path),
      path         |-> f.path,
      type         |-> f.language,
      complexity   |-> f.complexity_score,
      lines        |-> f.lines,
      classes      |-> Take(f.classes, 5),
      functions    |-> Take(f.functions, 10),
      key_patterns |-> Take(f.key_patterns, 5) ]

\* key_components with the threshold test >= in place of >
KeyComponents_AtLeast(files) ==
    LET top == Take(SortedByScore(AboveScore(files, KeyComponentThreshold - 1)),
                    KeyComponentLimit)
    IN  [i \in 1..Len(top) |-> Component(top[i])]

\* key_components: sorted by score, descending, first 15
KeyComponents(files) ==
    LET top == Take(SortedByScore(AboveScore(files, KeyComponentThreshold)),
                    KeyComponentLimit)
    IN  [i \in 1..Len(top) |-> Component(top[i])]

\* critical_files without the [:10]
CriticalFiles_All(files) == PathsOf(AboveScore(files, CriticalThreshold))

\* critical_files: [f.path for f in files if f.complexity_score > 40][:10]
CriticalFiles(files) ==
    Take(PathsOf(AboveScore(files, CriticalThreshold)), CriticalLimit)

\* any(word in f.path.lower() for f in files)
\* the path test without .lower()
AnyPathHas_CaseSensitive(files, word) ==
    \E i \in 1..Len(files) : Contains(files[i].path, word)

AnyPathHas(files, word) ==
    \E i \in 1..Len(files) : Contains(Lower(files[i].path), word)

ArchitecturePatterns(files) ==
    (IF AnyPathHas(files, <<"m","o","d","e","l","s">>)
     THEN <<"Model-View Architecture">> ELSE <<>>)
    \o (IF AnyPathHas(files, <<"c","o","n","t","r","o","l","l","e","r">>)
        THEN <<"MVC Pattern">> ELSE <<>>)
    \o (IF AnyPathHas(files, <<"s","e","r","v","i","c","e">>)
        THEN <<"Service Layer Pattern">> ELSE <<>>)
    \o (IF AnyPathHas(files, <<"c","o","m","p","o","n","e","n","t">>)
        THEN <<"Component-Based Architecture">> ELSE <<>>)

\* the substrings that mark a dependency as an external service
service_words == << <<"a","p","i">>, <<"h","t","t","p">>, <<"r","e","q","u","e","s","t">>, <<"a","x","i","o","s">>, <<"f","e","t","c","h">> >>

\* external_services with `service in dep` in place of
\* `service in dep.lower()`
external_services_CaseSensitive(dependencies) ==
    LET Hit(dep) == \E w \in 1..Len(service_words) : Contains(dep, service_words[w])
    IN  SelectSeq(DictKeyList(dependencies), Hit)

\* external_services
external_services(dependencies) ==
    LET Hit(dep) ==
            \E w \in 1..Len(service_words) : Contains(Lower(dep), service_words[w])
    IN  SelectSeq(DictKeyList(dependencies), Hit)

\* generate_project_overview: the data the text renders
generate_project_overview(files, structure) ==
    LET top == Take(SortedByScore(AboveScore(files, OverviewThreshold)),
                    OverviewLimit)
    IN  [ name          |-> structure.name,
          total_files   |-> structure.total_files,
          total_lines   |-> structure.total_lines,
          languages     |-> Take(SortedByCount(structure.languages), 5),
          frameworks    |-> structure.frameworks,
          entry_points  |-> structure.entry_points,
          config_count  |-> Len(structure.config_files),
          doc_count     |-> Len(structure.documentation),
          dependencies  |-> Take(DictKeyList(structure.dependencies),
                                 OverviewDependencyLimit),
          critical      |-> [i \in 1..Len(top) |->
                               [ path         |-> top[i].path,
                                 language     |-> top[i].language,
                                 lines        |-> top[i].lines,
                                 complexity   |-> top[i].complexity_score,
                                 key_patterns |-> Take(top[i].key_patterns, 3) ]] ]

\* create_resumable_context; now is datetime.now()
create_resumable_context(files, structure, now) ==
    [ project_overview      |-> generate_project_overview(files, structure),
      technical_stack       |-> [ languages    |-> structure.languages,
                                  frameworks   |-> structure.frameworks,
                                  dependencies |-> Take(structure.dependencies,
                                                       DependencyLimit) ],
      architecture_patterns |-> ArchitecturePatterns(files),
      key_components        |-> KeyComponents(files),
      api_endpoints         |-> Take(CollectTags(files, "API_ENDPOINT"), EndpointLimit),
      database_models       |-> Take(CollectTags(files, "DB_MODEL"), ModelLimit),
      ui_components         |-> Take(CollectTags(files, "REACT_COMPONENT"), UiLimit),
      external_services     |-> external_services(structure.dependencies),
      critical_files        |-> CriticalFiles(files),
      analysis_timestamp    |-> now,
      progress_markers      |-> [ structure_analyzed     |-> TRUE,
                                  dependencies_extracted |-> TRUE,
                                  patterns_identified    |-> TRUE,
                                  components_mapped      |-> TRUE ] ]

\* the orders in which list(all_frameworks) can enumerate a set of strings:
\* string hashing is seeded per process, so every order can occur
ListOfSet(S) ==
    {s \in [1..Cardinality(S) -> S] : \A i, j \in 1..Cardinality(S) :
                                          i # j => s[i] # s[j]}

\* the ProjectStructure of analyze_repository, for one enumeration order
ProjectStructure(repo_path, tree, files, languages, total_lines, frameworks) ==
    [ name          |-> Name(repo_path),
      root_path     |-> repo_path,
      total_files   |-> Len(files),
      total_lines   |-> total_lines,
      languages     |-> languages,
      frameworks    |-> frameworks,
      dependencies  |-> extract_dependencies(tree),
      entry_points  |-> find_entry_points(tree),
      config_files  |-> find_config_files(repo_path, tree),
      documentation |-> find_documentation(tree) ]

(***************************************************************************)
(* The trees and command lines the model runs on.                          *)
(***************************************************************************)
Names ==
    << "n01", "n02", "n03", "n04", "n05", "n06", "n07", "n08", "n09", "n10",
       "n11", "n12", "n13", "n14", "n15", "n16", "n17", "n18", "n19", "n20",
       "n21", "n22", "n23", "n24", "n25", "n26" >>

\* cx with a matches of r'def\s+\w+' and b matches of r'if\s*\('
Cx(a, b) ==
    [i \in 1..NumComplexPatterns |-> IF i = 3 THEN a ELSE IF i = 4 THEN b ELSE 0]

File(path, size, content) ==
    [ path |-> path, kind |-> "file", readable |-> TRUE, size |-> size,
      mtime |-> 7, content |-> content ]

Dir(path) ==
    [ path |-> path, kind |-> "dir", readable |-> TRUE, size |-> 0,
      mtime |-> 7, content |-> EmptyContent ]

\* 2 lines, one function, one import, one Flask route; score 2
AppPy ==
    [EmptyContent EXCEPT
        !.nl = 1, !.cx = Cx(1, 0), !.sig = {<<"Flask", 1>>, <<"Flask", 3>>},
        !.api = << <<"/">>, <<>>, <<>>, <<>>, <<>> >>,
        !.py = [ok |-> TRUE, imports |-> <<"os">>, classes |-> <<>>,
                functions |-> <<"handler">>]]

\* 100 lines, 10 matches, tags of the three categories; score 30
ConfigJs ==
    [EmptyContent EXCEPT
        !.nl = 99, !.cx = Cx(4, 6), !.sig = {<<"Express", 2>>, <<"React", 1>>},
        !.api = << <<>>, <<>>, <<>>, <<>>, <<"/health", "/users">> >>,
        !.db = << <<>>, <<>>, <<"sessions">> >>,
        !.comp = << <<"Panel">>, <<"Widget">> >>,
        !.js = [imports   |-> << <<"react">>, <<>>, <<"express">> >>,
                exports   |-> << <<  <<"Panel">>, <<"Widget">>  >>,
                                 <<  <<"a", "b">>  >>,
                                 <<>> >>,
                functions |-> << <<"start">>, <<"Panel">>, <<>>, <<>> >>]]

\* 250 lines, 10 matches, a Django model; score 45
UserPy ==
    [EmptyContent EXCEPT
        !.nl = 249, !.cx = Cx(10, 0), !.sig = {<<"Django", 3>>},
        !.db = << <<"User">>, <<>>, <<>> >>,
        !.comp = << <<"User">>, <<>> >>,
        !.py = [ok |-> TRUE, imports |-> <<"django.db.models">>,
                classes |-> <<"User">>, functions |-> <<"save">>]]

\* 1000 lines, 30 matches; score capped at 100
MainPy ==
    [EmptyContent EXCEPT
        !.nl = 999, !.cx = Cx(20, 10), !.sig = {<<"Flask", 1>>},
        !.py = [ok |-> TRUE, imports |-> <<"sys", "flask.Flask">>,
                classes |-> <<>>, functions |-> <<"main", "run">>]]

\* 50 lines, 10 matches, a model class, a syntax error; score 25
BadPy ==
    [EmptyContent EXCEPT
        !.nl = 49, !.cx = Cx(5, 5),
        !.db = << <<"Order">>, <<>>, <<>> >>,
        !.py = [ok |-> FALSE, imports |-> <<"os">>, classes |-> <<"Order">>,
                functions |-> <<"total">>]]

\* an empty file
Blank == EmptyContent

\* the catalogue: each group is a run of entries with directories of its own
Groups ==
    << << File(<<"a","p","p",".","p","y">>, 40, AppPy) >>,
       << Dir(<<"o","b","j">>), File(<<"o","b","j","/","t",".","p","y">>, 40, AppPy), File(<<"o","b","j","/","N",".","m","d">>, 10, Blank) >>,
       << File(<<".","x",".","p","y">>, 40, AppPy) >>,
       << File(<<"R","E","A","D","M","E",".","m","d">>, 10, Blank) >>,
       << File(<<"c","o","n","f","i","g",".","j","s">>, 2000, ConfigJs) >>,
       << [File(<<"u",".","p","y">>, 40, [AppPy EXCEPT !.sig = @ \cup {<<"Vue", 1>>}])
              EXCEPT !.readable = FALSE] >>,
       << Dir(<<"l","i","b",".","j","s">>) >>,
       << Dir(<<"s","r","c">>), Dir(<<"s","r","c","/","m","o","d","e","l","s">>), File(<<"s","r","c","/","m","o","d","e","l","s","/","U","s","e","r",".","P","Y">>, 5000, UserPy) >>,
       << File(<<"m","a","i","n",".","p","y">>, 20000, MainPy) >>,
       << File(<<"n","o","t","e","s",".","t","x","t">>, 10, Blank) >>,
       << File(<<"b","a","d",".","p","y">>, 1000, BadPy) >> >>

\* the sequences of at most n distinct group indices
RECURSIVE GroupChoices(_)
GroupChoices(n) ==
    IF n = 0 THEN { <<>> }
    ELSE LET shorter == GroupChoices(n - 1)
         IN  shorter \cup
             { Append(c, g) : c \in {d \in shorter : Len(d) = n - 1},
                              g \in 1..Len(Groups) }

SmallTrees ==
    { Flatten([i \in 1..Len(c) |-> Groups[c[i]]]) :
        c \in {d \in GroupChoices(MaxGroups) :
                 \A i, j \in 1..Len(d) : i # j => d[i] # d[j]} }

\* the kinds of file of the large trees
\* score 30; 25 imports; 12 routes
BulkA ==
    [EmptyContent EXCEPT
        !.nl = 99, !.cx = Cx(10, 0), !.sig = {<<"Flask", 3>>},
        !.api = << SubSeq(Names, 1, 7), <<>>, <<>>, <<>>, SubSeq(Names, 8, 12) >>,
        !.py = [ok |-> TRUE, imports |-> SubSeq(Names, 1, 25),
                classes |-> SubSeq(Names, 1, 2), functions |-> SubSeq(Names, 3, 8)]]

\* score 45; a route, a table and 11 components; 21 functions; 22 imports
BulkB ==
    [EmptyContent EXCEPT
        !.nl = 249, !.cx = Cx(0, 10),
        !.api = << <<>>, <<>>, <<>>, <<"n26">>, <<>> >>,
        !.db = << <<>>, <<>>, <<"n25">> >>,
        !.comp = << SubSeq(Names, 1, 8), SubSeq(Names, 9, 11) >>,
        !.js = [imports   |-> << SubSeq(Names, 1, 15), <<>>, SubSeq(Names, 16, 22) >>,
                exports   |-> << << <<"n01">>, <<"n02">> >>,
                                 << SubSeq(Names, 3, 24), <<"n25">> >>,
                                 <<>> >>,
                functions |-> << SubSeq(Names, 1, 12), SubSeq(Names, 13, 20),
                                 <<>>, <<"n21">> >>]]

\* score 45; 3 routes and 9 models
BulkC ==
    [EmptyContent EXCEPT
        !.nl = 9, !.cx = Cx(22, 0),
        !.api = << <<"n01">>, <<>>, <<>>, <<"n02", "n03">>, <<>> >>,
        !.db = << SubSeq(Names, 1, 6), <<>>, SubSeq(Names, 7, 9) >>,
        !.py = [ok |-> TRUE, imports |-> <<>>, classes |-> SubSeq(Names, 1, 21),
                functions |-> <<>>]]

\* score exactly 25
BulkD ==
    [EmptyContent EXCEPT
        !.nl = 49, !.cx = Cx(5, 5),
        !.js = [imports |-> NoMatches(3), exports |-> NoMatches(3),
                functions |-> << <<"n01">>, <<>>, <<>>, <<>> >>]]

\* score capped at 100; two entities; component-like text in a Java file
BulkE ==
    [EmptyContent EXCEPT
        !.nl = 5000, !.cx = Cx(30, 30),
        !.db = << <<>>, <<"n01", "n02">>, <<>> >>,
        !.comp = << <<"n03">>, <<>> >>]

\* score 41; one table
BulkF ==
    [EmptyContent EXCEPT
        !.nl = 409, !.db = << <<>>, <<>>, <<"n01">> >>]

BulkKinds ==
    << [ext |-> <<".","p","y">>,   content |-> BulkA],
       [ext |-> <<".","t","s","x">>,  content |-> BulkB],
       [ext |-> <<".","p","y">>,   content |-> BulkC],
       [ext |-> <<".","j","s">>,   content |-> BulkD],
       [ext |-> <<".","j","a","v","a">>, content |-> BulkE],
       [ext |-> <<".","s","q","l">>,  content |-> BulkF] >>

\* a directory s holding n files whose kinds cycle through BulkKinds,
\* starting after the first `offset` kinds
BulkTree(n, offset) ==
    << Dir(<<"s">>) >> \o
    [i \in 1..n |->
        LET k == BulkKinds[((i + offset) % Len(BulkKinds)) + 1]
        IN  File(<<"s","/">> \o <<LowerChars[i]>> \o k.ext, 100 * i, k.content)]

BulkTrees == {BulkTree(n, o) : n \in 1..MaxBulk, o \in 0..(Len(BulkKinds) - 1)}

\* a file of 100 * k + 10 lines with 5 * j matches of the complexity patterns
Scored(k, j) == [EmptyContent EXCEPT !.nl = 100 * k + 9, !.cx = Cx(5 * j, 0)]

\* two files of the same length with independent numbers of matches
ScoreTrees ==
    { << File(<<"p",".","p","y">>, 100, Scored(k, i)), File(<<"q",".","p","y">>, 100, Scored(k, j)) >> :
        k \in 0..MaxLineSteps, i \in 0..MaxMatchSteps, j \in 0..MaxMatchSteps }

\* a package.json holding the two maps
PackageJson(dependencies, devDependencies) ==
    File(<<"p","a","c","k","a","g","e",".","j","s","o","n">>, 90,
         [EmptyContent EXCEPT !.nl = 6,
             !.json = [ok |-> TRUE, dependencies |-> dependencies,
                       devDependencies |-> devDependencies]])

\* a requirements.txt of these lines whose read raises at line read_error
RequirementsTxt(lines, read_error) ==
    File(<<"r","e","q","u","i","r","e","m","e","n","t","s",".","t","x","t">>, 60,
         [EmptyContent EXCEPT !.nl = Len(lines), !.lines = lines,
                              !.read_error = read_error])

\* the package.json of a tree: none, a directory, an unreadable file, a file
\* that is not JSON, and well-formed ones
PackageVariants ==
    { <<>>,
      << Dir(<<"p","a","c","k","a","g","e",".","j","s","o","n">>) >>,
      << [File(<<"p","a","c","k","a","g","e",".","j","s","o","n">>, 90, EmptyContent) EXCEPT !.readable = FALSE] >>,
      << File(<<"p","a","c","k","a","g","e",".","j","s","o","n">>, 90, [EmptyContent EXCEPT !.nl = 2]) >>,
      << PackageJson(<<>>, <<>>) >>,
      << PackageJson(<< <<<<"l","e","f","t","-","p","a","d">>, <<"1",".","0",".","0">>>> >>, <<>>) >>,
      << PackageJson(<< <<<<"A","x","i","o","s">>, <<"^","1",".","2">>>>, <<<<"r","e","a","c","t">>, <<"1","8">>>> >>,
                     << <<<<"r","e","a","c","t">>, <<"1","7">>>>, <<<<"n","o","d","e","-","f","e","t","c","h">>, <<"3">>>> >>) >>,
      << PackageJson(<<>>, << <<<<"j","e","s","t">>, <<"2","9">>>> >>) >> }

\* a line with its line end
Line(s) == s \o <<"\n">>

ThreeLines == << Line(<<"f","l","a","s","k","=","=","2",".","0",".","1">>), Line(<<"r","e","q","u","e","s","t","s",">","=","2">>), Line(<<"d","j","a","n","g","o","<","=","3">>) >>

\* the requirements.txt of a tree
RequirementsVariants ==
    { <<>>,
      << [RequirementsTxt(ThreeLines, 0) EXCEPT !.readable = FALSE] >>,
      << RequirementsTxt(<<>>, 0) >>,
      << RequirementsTxt(ThreeLines, 0) >>,
      << RequirementsTxt(ThreeLines, 1) >>,
      << RequirementsTxt(ThreeLines, 3) >>,
      << RequirementsTxt(<< Line(<<"#"," ","p","i","n","n","e","d">>), Line(<<>>), Line(<<" "," ","H","T","T","P","X"," ","<","="," ","1"," ">>),
                            Line(<<" "," "," ">>), <<"a","=","=","=","1">> >>, 0) >>,
      << RequirementsTxt(<< Line(<<"r","e","a","c","t","=","=","1","8">>), Line(<<"A","x","i","o","s">>), <<"r","e","a","c","t","<","=","1","9">> >>, 0) >>,
      << RequirementsTxt(<< Line(<<"f","l","a","s","k","=","=","1">>), Line(<<"x",">","=","=","1">>),
                            Line(<<"f","l","a","s","k",">","=","2">>), Line(<<"b","<","=","2",">","=","1","=","=","0">>) >>, 0) >> }

ManifestTrees ==
    { Groups[1] \o p \o r : p \in PackageVariants, r \in RequirementsVariants }

\* per architecture word: no entry, entries that give a record at a path
\* holding the word, and an entry holding the word that gives no record
ModelsVariants ==
    { <<>>,
      << Dir(<<"a","p","p">>), Dir(<<"a","p","p","/","M","o","d","e","l","s">>), File(<<"a","p","p","/","M","o","d","e","l","s","/","a",".","p","y">>, 40, AppPy) >>,
      << File(<<"m","o","d","e","l","s",".","m","d">>, 10, Blank) >> }

ControllerVariants ==
    { <<>>,
      << File(<<"U","s","e","r","C","o","n","t","r","o","l","l","e","r",".","j","s">>, 2000, ConfigJs) >>,
      << [File(<<"c","o","n","t","r","o","l","l","e","r",".","p","y">>, 40, AppPy) EXCEPT !.readable = FALSE] >> }

ServiceVariants ==
    { <<>>,
      << File(<<"S","E","R","V","I","C","E","S",".","g","o">>, 10, Blank) >>,
      << Dir(<<"s","e","r","v","i","c","e",".","j","s">>) >> }

ComponentVariants ==
    { <<>>,
      << Dir(<<"c","o","m","p","o","n","e","n","t","s">>), File(<<"c","o","m","p","o","n","e","n","t","s","/","x",".","t","s","x">>, 2000, ConfigJs) >>,
      << File(<<".","c","o","m","p","o","n","e","n","t",".","j","s">>, 2000, ConfigJs) >> }

ArchitectureTrees ==
    { m \o c \o s \o k : m \in ModelsVariants, c \in ControllerVariants,
                          s \in ServiceVariants, k \in ComponentVariants }

Roots == { <<"/","w","/","p","r","o","j">>, <<"/","w","/","b","i","n","/","p","r","o","j">> }

\* the states of the output directory path before the run: a directory,
\* absent below an existing parent, absent below a missing parent, or a
\* regular file
OutDirStates == {"dir", "absent", "no_parent", "file"}

\* a run's input: the command line and the filesystem it meets
Inputs ==
    \* a root that does not exist
    [ repo_path : {<<"/","w","/","p","r","o","j">>}, root_exists : {FALSE}, tree : {<<>>},
      out_dir : OutDirStates, summary_only : BOOLEAN ]
    \cup
    \* every command line and output directory over one tree
    [ repo_path : Roots, root_exists : {TRUE},
      tree : {Groups[1] \o Groups[2] \o Groups[3] \o Groups[6] \o Groups[4]
                 \o Groups[5] \o Groups[9]},
      out_dir : OutDirStates, summary_only : BOOLEAN ]
    \cup
    \* every small tree
    [ repo_path : {<<"/","w","/","p","r","o","j">>}, root_exists : {TRUE}, tree : SmallTrees,
      out_dir : {"absent"}, summary_only : {TRUE} ]
    \cup
    \* the large trees
    [ repo_path : {<<"/","w","/","p","r","o","j">>}, root_exists : {TRUE}, tree : BulkTrees,
      out_dir : {"dir"}, summary_only : {FALSE} ]
    \cup
    \* the trees that vary length and match count
    [ repo_path : {<<"/","w","/","p","r","o","j">>}, root_exists : {TRUE}, tree : ScoreTrees,
      out_dir : {"dir"}, summary_only : {TRUE} ]
    \cup
    \* the trees that vary the two manifests
    [ repo_path : {<<"/","w","/","p","r","o","j">>}, root_exists : {TRUE}, tree : ManifestTrees,
      out_dir : {"dir"}, summary_only : {TRUE} ]
    \cup
    \* the trees that vary the paths the architecture labels look for
    [ repo_path : {<<"/","w","/","p","r","o","j">>}, root_exists : {TRUE}, tree : ArchitectureTrees,
      out_dir : {"dir"}, summary_only : {TRUE} ]

(***************************************************************************)
(* The run of main().                                                      *)
(***************************************************************************)
\* save_analysis writing the summary first
ArtifactOrder_SummaryFirst ==
    << "ai_summary.md", "files_analysis.json", "project_structure.json",
       "ai_context.json" >>

\* save_analysis writes the artifacts in this order
ArtifactOrder ==
    << "files_analysis.json", "project_structure.json", "ai_context.json",
       "ai_summary.md" >>

None == [none |-> TRUE]

VARIABLES
    repo_path,       \* args.repo_path
    summary_only,    \* args.summary_only
    root_exists,     \* whether args.repo_path exists
    tree,            \* the entries below the root, in rglob order
    out_dir,         \* the state of the args.output path
    out_files,       \* the artifacts present in the output directory
    pc,              \* where main() is
    rc,              \* <<>> until main returns, then <<its return value>>
    diagnostics,     \* the error lines printed so far in this run
    idx,             \* the position of the rglob loop of analyze_repository
    files,           \* analyze_repository: files
    languages,       \* analyze_repository: languages
    total_lines,     \* analyze_repository: total_lines
    all_frameworks,  \* analyze_repository: all_frameworks
    structure,       \* the ProjectStructure, None until built
    context,         \* the ResumableContext, None until built
    written,         \* the artifacts written by this run, in order
    opens,           \* per entry scanned, the functions that opened it to read
    run,             \* the number of the current run
    prev             \* the structure and context of the previous run

vars ==
    << repo_path, summary_only, root_exists, tree, out_dir, out_files, pc, rc,
       diagnostics, idx, files, languages, total_lines, all_frameworks,
       structure, context, written, opens, run, prev >>

input == << repo_path, summary_only, root_exists, tree >>
scan == << idx, files, languages, total_lines, all_frameworks, opens >>

Init ==
    /\ \E in \in Inputs :
          /\ repo_path = in.repo_path
          /\ summary_only = in.summary_only
          /\ root_exists = in.root_exists
          /\ tree = in.tree
          /\ out_dir = in.out_dir
    /\ out_files = {}
    /\ pc = "main"
    /\ rc = <<>>
    /\ diagnostics = <<>>
    /\ idx = 1
    /\ files = <<>>
    /\ languages = <<>>
    /\ total_lines = 0
    /\ all_frameworks = {}
    /\ structure = None
    /\ context = None
    /\ written = <<>>
    /\ opens = <<>>
    /\ run = 1
    /\ prev = None

\* mkdir(exist_ok=True) raises when the parent is missing or when the path
\* is a regular file
MkdirRaises(state) == state \in {"no_parent", "file"}

\* main with the analyzer constructed before the root path is checked
CheckRoot_MkdirFirst ==
    /\ pc = "main"
    /\ IF MkdirRaises(out_dir)
       THEN /\ pc' = "raised"
            /\ UNCHANGED << out_dir, diagnostics, rc >>
       ELSE /\ out_dir' = "dir"
            /\ IF ~root_exists
               THEN /\ diagnostics' = Append(diagnostics, "Error: Repository path does not exist")
                    /\ rc' = <<1>>
                    /\ pc' = "exit"
               ELSE /\ pc' = "construct"
                    /\ UNCHANGED << diagnostics, rc >>
    /\ UNCHANGED << input, out_files, scan, structure, context, written, run, prev >>

\* main: the precondition on the root path
CheckRoot ==
    /\ pc = "main"
    /\ IF ~root_exists
       THEN /\ diagnostics' = Append(diagnostics, "Error: Repository path does not exist")
            /\ rc' = <<1>>
            /\ pc' = "exit"
       ELSE /\ pc' = "construct"
            /\ UNCHANGED << diagnostics, rc >>
    /\ UNCHANGED << input, out_dir, out_files, scan, structure, context,
                    written, run, prev >>

\* CodebaseAnalyzer.__init__, called by main outside its try block: an
\* exception of mkdir leaves main without a return value
Construct ==
    /\ pc = "construct"
    /\ IF MkdirRaises(out_dir)
       THEN /\ pc' = "raised"
            /\ UNCHANGED out_dir
       ELSE /\ pc' = "scan"
            /\ out_dir' = "dir"
    /\ UNCHANGED << input, out_files, rc, diagnostics, scan, structure,
                    context, written, run, prev >>

\* the functions that open a file for reading while one entry that yields
\* a record is handled, in the order of their `with open` blocks
OpenSites(language) ==
    <<"analyze_file">>
    \o (IF language = "python" THEN <<"extract_python_info">>
        ELSE IF language \in JsFamily THEN <<"extract_javascript_info">>
        ELSE <<>>)
    \o <<"analyze_repository">>

\* one iteration of the rglob loop of analyze_repository
ScanEntry ==
    /\ pc = "scan"
    /\ idx <= Len(tree)
    /\ LET entry == tree[idx]
           info  == IF IsCodeSuffix(Suffix(entry.path))
                    THEN analyze_file(repo_path, entry)
                    ELSE <<>>
       IN  /\ files' = files \o info
           /\ IF info # <<>>
              THEN /\ languages' = CountLanguage(languages, info[1].language)
                   /\ total_lines' = total_lines + info[1].lines
                   /\ all_frameworks' =
                         all_frameworks \cup Range(detect_frameworks(entry.content))
              ELSE UNCHANGED << languages, total_lines, all_frameworks >>
           /\ opens' = Append(opens, IF info # <<>>
                                      THEN OpenSites(info[1].language)
                                      ELSE <<>>)
           /\ diagnostics' =
                 IF /\ IsCodeSuffix(Suffix(entry.path))
                    /\ ~should_ignore_path(Join(repo_path, entry.path))
                    /\ entry.kind = "file"
                 THEN IF ~entry.readable
                      THEN Append(diagnostics, "Error analyzing file")
                      ELSE IF detect_language(entry.path) = "python"
                              /\ ~entry.content.py.ok
                      THEN Append(diagnostics, "Error parsing Python file")
                      ELSE diagnostics
                 ELSE diagnostics
    /\ idx' = idx + 1
    /\ UNCHANGED << input, out_dir, out_files, pc, rc, structure, context,
                    written, run, prev >>

\* analyze_repository after the loop: the ProjectStructure
BuildStructure ==
    /\ pc = "scan"
    /\ idx > Len(tree)
    /\ \E frameworks \in ListOfSet(all_frameworks) :
          structure' = ProjectStructure(repo_path, tree, files, languages,
                                        total_lines, frameworks)
    /\ diagnostics' = diagnostics \o DependencyDiagnostics(tree)
    /\ pc' = "context"
    /\ UNCHANGED << input, out_dir, out_files, rc, scan, context, written, run,
                    prev >>

\* analyze_repository: create_resumable_context; the clock reads the run
\* number
CreateContext ==
    /\ pc = "context"
    /\ context' = create_resumable_context(files, structure, run)
    /\ pc' = "save"
    /\ UNCHANGED << input, out_dir, out_files, rc, diagnostics, scan,
                    structure, written, run, prev >>

\* main calling save_analysis whatever the mode
Requested_SaveAlways == ArtifactOrder

\* the artifacts the run has to write, in order
Requested == IF summary_only THEN <<"ai_summary.md">> ELSE ArtifactOrder

\* one `with open(..., 'w')` block of main or of save_analysis: it writes
\* the artifact, or raises and main's handler prints and returns 1; the
\* block that raises leaves no file when open raises and an incomplete
\* file when the write raises
WriteArtifact ==
    /\ pc = "save"
    /\ Len(written) < Len(Requested)
    /\ \E ok \in BOOLEAN :
          IF ok
          THEN /\ written' = Append(written, Requested[Len(written) + 1])
               /\ out_files' = out_files \cup {Requested[Len(written) + 1]}
               /\ UNCHANGED << pc, rc, diagnostics >>
          ELSE /\ diagnostics' = Append(diagnostics, "Error during analysis")
               /\ rc' = <<1>>
               /\ pc' = "exit"
               /\ \E opened \in BOOLEAN :
                     out_files' = IF opened
                                  THEN out_files \cup {Requested[Len(written) + 1]}
                                  ELSE out_files
               /\ UNCHANGED written
    /\ UNCHANGED << input, out_dir, scan, structure, context, run, prev >>

\* main: return 0 once everything is written
Return0 ==
    /\ pc = "save"
    /\ Len(written) = Len(Requested)
    /\ rc' = <<0>>
    /\ pc' = "exit"
    /\ UNCHANGED << input, out_dir, out_files, diagnostics, scan, structure,
                    context, written, run, prev >>

\* the command is run again over the unchanged tree
Rerun ==
    /\ pc = "exit"
    /\ rc = <<0>>
    /\ run < MaxRuns
    /\ prev' = [structure |-> structure, context |-> context]
    /\ run' = run + 1
    /\ pc' = "main"
    /\ rc' = <<>>
    /\ diagnostics' = <<>>
    /\ idx' = 1
    /\ files' = <<>>
    /\ languages' = <<>>
    /\ total_lines' = 0
    /\ all_frameworks' = {}
    /\ structure' = None
    /\ context' = None
    /\ written' = <<>>
    /\ opens' = <<>>
    /\ UNCHANGED << input, out_dir, out_files >>

Next ==
    \/ CheckRoot
    \/ Construct
    \/ ScanEntry
    \/ BuildStructure
    \/ CreateContext
    \/ WriteArtifact
    \/ Return0
    \/ Rerun

Spec == Init /\ [][Next]_vars

TypeOK ==
    /\ pc \in {"main", "construct", "scan", "context", "save", "exit", "raised"}
    /\ rc \in {<<>>, <<0>>, <<1>>}
    /\ idx \in 1..(Len(tree) + 1)
    /\ run \in 1..MaxRuns

(***************************************************************************)
(* Properties.                                                             *)
(***************************************************************************)
Built == structure # None
Synthesized == context # None

\* the loop of analyze_repository has ended and the records are complete
LoopDone == pc = "scan" /\ idx > Len(tree)

\* create_resumable_context has just returned
JustSynthesized == pc = "save" /\ written = <<>>

\* the tree entry a FileInfo was built from
EntryOf(f) == tree[CHOOSE i \in 1..Len(tree) : tree[i].path = f.path]

\* the position of a path in files
PosOf(path) == CHOOSE i \in 1..Len(files) : files[i].path = path

\* the entries the path filter rejects
Rejected == {i \in 1..Len(tree) : should_ignore_path(Join(repo_path, tree[i].path))}

\* every path a ResumableContext mentions
ContextPaths(c) ==
    Range(c.critical_files)
    \cup {c.key_components[i].path : i \in 1..Len(c.key_components)}
    \cup {c.api_endpoints[i].file : i \in 1..Len(c.api_endpoints)}
    \cup {c.database_models[i].file : i \in 1..Len(c.database_models)}
    \cup {c.ui_components[i].file : i \in 1..Len(c.ui_components)}
    \cup {c.project_overview.critical[i].path :
             i \in 1..Len(c.project_overview.critical)}
    \cup Range(c.project_overview.entry_points)

\* C1: an entry the path filter rejects yields no FileInfo and its path is
\* in no downstream artifact: not in files, not in entry_points,
\* config_files or documentation, and in no field of the context.
C1_RejectedAbsent ==
    \A i \in Rejected :
        /\ tree[i].path \notin Range(PathsOf(files))
        /\ Built => /\ tree[i].path \notin Range(structure.entry_points)
                    /\ tree[i].path \notin Range(structure.config_files)
                    /\ tree[i].path \notin Range(structure.documentation)
        /\ Synthesized => tree[i].path \notin ContextPaths(context)

\* C2: the values of languages sum to total_files, which is the number of
\* FileInfo records, also when entries are skipped or fail analysis.
C2_HistogramSumsToFileCount ==
    /\ SumSeq(DictValues(languages)) = Len(files)
    /\ Built => /\ SumSeq(DictValues(structure.languages)) = structure.total_files
                /\ structure.total_files = Len(files)

\* a built structure over a tree with a rejected code file, a code file that
\* fails analysis and two records of one language
C2_Witness ==
    /\ Built
    /\ \E i \in Rejected : IsCodeSuffix(Suffix(tree[i].path))
    /\ \E i \in 1..Len(tree) : ~tree[i].readable
    /\ \E i \in 1..Len(structure.languages) : structure.languages[i][2] >= 2
    /\ Len(structure.languages) >= 2

\* C3: critical_files is the paths of the records scoring above 40, sorted
\* by score descending like key_components, then cut to the first 10.
C3_CriticalFilesSorted ==
    Synthesized =>
        context.critical_files =
            Take(PathsOf(SortedByScore(AboveScore(files, CriticalThreshold))),
                 CriticalLimit)

\* C4: key_components holds exactly the records scoring strictly above 25,
\* highest score first, equal scores in traversal order, cut to the first
\* 15: a record scoring 25 is never listed and no listed record is outranked
\* by an omitted one.
C4_KeyComponentsRanked ==
    Synthesized =>
        LET kc   == context.key_components
            elig == {i \in 1..Len(files) :
                        files[i].complexity_score > KeyComponentThreshold}
            Before(p, sp, q, sq) == sp > sq \/ (sp = sq /\ p < q)
        IN  /\ Len(kc) = Min(Cardinality(elig), KeyComponentLimit)
            /\ \A k \in 1..Len(kc) :
                  /\ PosOf(kc[k].path) \in elig
                  /\ kc[k].complexity = files[PosOf(kc[k].path)].complexity_score
                  /\ kc[k].complexity # KeyComponentThreshold
            /\ \A k, l \in 1..Len(kc) :
                  k < l => Before(PosOf(kc[k].path), kc[k].complexity,
                                  PosOf(kc[l].path), kc[l].complexity)
            /\ \A i \in elig :
                  (\A k \in 1..Len(kc) : kc[k].path # files[i].path)
                  => \A k \in 1..Len(kc) :
                        Before(PosOf(kc[k].path), kc[k].complexity,
                               i, files[i].complexity_score)

\* more than 15 records above the threshold, one scoring exactly 25, two
\* listed components with equal scores, and a 45 listed before a 30
C4_Witness ==
    /\ Synthesized
    /\ Len(AboveScore(files, KeyComponentThreshold)) > KeyComponentLimit
    /\ \E i \in 1..Len(files) : files[i].complexity_score = KeyComponentThreshold
    /\ LET kc == context.key_components
       IN  /\ \E k, l \in 1..Len(kc) : k < l /\ kc[k].complexity = kc[l].complexity
           /\ \E k, l \in 1..Len(kc) :
                 k < l /\ kc[k].complexity = 45 /\ kc[l].complexity = 30

\* C5: a second run over the unchanged tree yields the same ProjectStructure
\* in every field and the same ResumableContext in every field but
\* analysis_timestamp.
C5_SecondRunIdentical ==
    (run > 1 /\ Synthesized) =>
        /\ structure = prev.structure
        /\ [context EXCEPT !.analysis_timestamp = 0]
              = [prev.context EXCEPT !.analysis_timestamp = 0]

\* the number of complexity-pattern matches in a file's content
MatchCount(content) == SumSeq(content.cx)

\* C6: every record's complexity_score is in 0..100, and of two records
\* with the same line count the one with no more matches of the complexity
\* patterns scores no higher.
C6_ScoreBoundedMonotone ==
    /\ \A i \in 1..Len(files) :
          files[i].complexity_score >= 0 /\ files[i].complexity_score <= ScoreCap
    /\ \A i, j \in 1..Len(files) :
          (/\ files[i].lines = files[j].lines
           /\ MatchCount(EntryOf(files[i]).content)
                 <= MatchCount(EntryOf(files[j]).content))
          => files[i].complexity_score <= files[j].complexity_score

\* two records of the same length, the first with fewer matches and a score
\* below the cap, the second with more matches than the cap lets count
C6_Witness ==
    /\ Len(files) = 2
    /\ files[1].lines = files[2].lines
    /\ MatchCount(EntryOf(files[1]).content) < MatchCount(EntryOf(files[2]).content)
    /\ files[1].complexity_score < ScoreCap
    /\ files[2].complexity_score = ScoreCap
    /\ files[2].lines \div LineDivisor
          + PointsPerMatch * MatchCount(EntryOf(files[2]).content) > ScoreCap

\* s is the first min(Len(full), n) elements of full, in order
IsPrefixOfLength(s, full, n) ==
    /\ Len(s) = Min(Len(full), n)
    /\ \A i \in 1..Len(s) : s[i] = full[i]

\* C7: in every record imports, classes and functions are the first
\* min(n, 20) entries of the extractor's output and key_patterns the first
\* min(n, 10) entries of the tagger's output, in the same order.
C7_ListsArePrefixes ==
    \A i \in 1..Len(files) :
        LET f   == files[i]
            c   == EntryOf(f).content
            ext == ExtractorOutput(c, f.language)
        IN  /\ IsPrefixOfLength(f.imports, ext[1], ListLimit)
            /\ IsPrefixOfLength(f.classes, ext[2], ListLimit)
            /\ IsPrefixOfLength(f.functions, ext[3], ListLimit)
            /\ IsPrefixOfLength(f.key_patterns,
                                extract_key_patterns(c, f.language),
                                KeyPatternLimit)

\* records whose extractor found more than 20 imports, more than 20
\* classes and more than 20 functions, and whose tagger found more than 10
\* tags
C7_Witness ==
    LET Ext(f) == ExtractorOutput(EntryOf(f).content, f.language)
    IN  /\ \E i \in 1..Len(files) :
              Len(Ext(files[i])[1]) > ListLimit /\ Len(files[i].imports) = ListLimit
        /\ \E i \in 1..Len(files) :
              Len(Ext(files[i])[2]) > ListLimit /\ Len(files[i].classes) = ListLimit
        /\ \E i \in 1..Len(files) :
              Len(Ext(files[i])[3]) > ListLimit /\ Len(files[i].functions) = ListLimit
        /\ \E i \in 1..Len(files) :
              /\ Len(extract_key_patterns(EntryOf(files[i]).content,
                                          files[i].language)) > KeyPatternLimit
              /\ Len(files[i].key_patterns) = KeyPatternLimit

\* C8: in every context key_components has at most 15 entries,
\* critical_files at most 10, api_endpoints at most 20, database_models at
\* most 15 and ui_components at most 20.
C8_ContextListsBounded ==
    Synthesized =>
        /\ Len(context.key_components) <= KeyComponentLimit
        /\ Len(context.critical_files) <= CriticalLimit
        /\ Len(context.api_endpoints) <= EndpointLimit
        /\ Len(context.database_models) <= ModelLimit
        /\ Len(context.ui_components) <= UiLimit

\* a context whose five lists are all full while the records offer more
C8_Witness ==
    /\ Synthesized
    /\ Len(AboveScore(files, KeyComponentThreshold)) > KeyComponentLimit
    /\ Len(context.key_components) = KeyComponentLimit
    /\ Len(AboveScore(files, CriticalThreshold)) > CriticalLimit
    /\ Len(context.critical_files) = CriticalLimit
    /\ Len(CollectTags(files, "API_ENDPOINT")) > EndpointLimit
    /\ Len(context.api_endpoints) = EndpointLimit
    /\ Len(CollectTags(files, "DB_MODEL")) > ModelLimit
    /\ Len(context.database_models) = ModelLimit
    /\ Len(CollectTags(files, "REACT_COMPONENT")) > UiLimit
    /\ Len(context.ui_components) = UiLimit

\* the analysis and every requested write completed
Complete == Synthesized /\ written = Requested

\* the diagnostics main itself prints
MainDiagnostics ==
    {"Error: Repository path does not exist", "Error during analysis"}

\* C9: main returns 0 exactly when the analysis and every requested write
\* complete; in every failing run, a missing root or an exception raised
\* anywhere after the root check, main prints a diagnostic and returns 1.
C9_FailuresReturnOne ==
    /\ rc = <<0>> <=> (pc = "exit" /\ Complete)
    /\ (pc \in {"exit", "raised"} /\ ~Complete) =>
          /\ rc = <<1>>
          /\ diagnostics # <<>>
          /\ diagnostics[Len(diagnostics)] \in MainDiagnostics

\* C10: when the root path does not exist the only step main takes reports
\* the error and returns 1; the output directory is not created, nothing is
\* scanned and no artifact is written.
C10_MissingRootAborts ==
    [][~root_exists =>
          /\ pc' = "exit"
          /\ rc' = <<1>>
          /\ diagnostics' = <<"Error: Repository path does not exist">>
          /\ UNCHANGED << out_dir, out_files, written, scan, structure, context >>
      ]_vars

\* main has returned 1 for a missing root whose output directory could have
\* been created
C10_Witness ==
    /\ ~root_exists
    /\ pc = "exit"
    /\ rc = <<1>>
    /\ out_dir = "absent"
    /\ out_files = {}

\* the entries analyze_file builds a record from
Analysable(e) ==
    /\ e.kind = "file"
    /\ e.readable
    /\ IsCodeSuffix(Suffix(e.path))
    /\ ~should_ignore_path(Join(repo_path, e.path))

\* a Python file whose content ast.parse rejects
Unparsable(e) ==
    /\ ~e.content.py.ok
    /\ detect_language(e.path) = "python"
    /\ Analysable(e)

\* C11: a Python file that fails to parse still yields a FileInfo, with
\* imports, classes and functions empty and size, lines, complexity_score
\* and key_patterns computed as for any file; the run goes on: when the
\* loop is over every analysable entry has its record and is counted.
C11_ParseFailureKeepsRecord ==
    pc = "context" =>
        /\ \A i \in 1..Len(tree) :
              Analysable(tree[i]) =>
                 LET e  == tree[i]
                     js == {j \in 1..Len(files) : files[j].path = e.path}
                 IN  /\ Cardinality(js) = 1
                     /\ (~e.content.py.ok /\ detect_language(e.path) = "python") =>
                           \A j \in js :
                              /\ files[j].imports = <<>>
                              /\ files[j].classes = <<>>
                              /\ files[j].functions = <<>>
                              /\ files[j].size = e.size
                              /\ files[j].lines = e.content.nl + 1
                              /\ files[j].complexity_score
                                    = Min(Min(files[j].lines \div LineDivisor, BaseCap)
                                          + PointsPerMatch * SumSeq(e.content.cx),
                                          ScoreCap)
                              /\ Len(files[j].key_patterns)
                                    = Min(Len(Flatten(e.content.api))
                                          + Len(Flatten(e.content.db)),
                                          KeyPatternLimit)
        /\ structure.total_files
              = Cardinality({i \in 1..Len(tree) : Analysable(tree[i])})

\* the structure of a run whose tree has a Python file that does not
\* parse, recorded with a tag and a positive score, and a file analysed
\* after it
C11_Witness ==
    /\ pc = "context"
    /\ \E i \in 1..Len(tree) :
          /\ Unparsable(tree[i])
          /\ \E j \in 1..Len(files) :
                /\ files[j].path = tree[i].path
                /\ files[j].key_patterns # <<>>
                /\ files[j].complexity_score > 0
                /\ j < Len(files)
    /\ "Error parsing Python file" \in Range(diagnostics)

\* the keys of the dependency map under an ecosystem prefix
KeysUnder(dependencies, prefix) ==
    {i \in 1..Len(dependencies) : StartsWith(dependencies[i][1], prefix)}

\* whether the tree holds a manifest that yields its whole content
PackageJsonLoads(t) ==
    \E i \in 1..Len(t) :
        t[i].path = <<"p","a","c","k","a","g","e",".","j","s","o","n">> /\ Opens(t[i]) /\ t[i].content.json.ok

RequirementsLoad(t) ==
    \E i \in 1..Len(t) :
        t[i].path = <<"r","e","q","u","i","r","e","m","e","n","t","s",".","t","x","t">> /\ Opens(t[i])
            /\ t[i].content.read_error = 0

\* C12: a manifest that is missing, unreadable or malformed ends no run and
\* contributes no entry to the dependency map, never a partial set, and
\* the entries of the other manifest are all there.
C12_FailedManifestContributesNothing ==
    structure # None =>
        /\ ~PackageJsonLoads(tree) =>
               KeysUnder(structure.dependencies, <<"n","p","m",":">>) = {}
        /\ ~RequirementsLoad(tree) =>
               KeysUnder(structure.dependencies, <<"p","i","p",":">>) = {}
        /\ (~PackageJsonLoads(tree) /\ RequirementsLoad(tree)) =>
               structure.dependencies
                   = RequirementLines(<<>>, EntriesAt(tree, <<"r","e","q","u","i","r","e","m","e","n","t","s",".","t","x","t">>)[1].content.lines)
        /\ (PackageJsonLoads(tree) /\ ~RequirementsLoad(tree)) =>
               structure.dependencies
                   = DictUpdate(<<>>, NpmEntries(EntriesAt(tree, <<"p","a","c","k","a","g","e",".","j","s","o","n">>)[1].content))

\* the text of a line before the first occurrence of any of the operators
TextBeforeFirstOperator(line) ==
    LET occ == Occurrences(line, <<"=","=">>) \cup Occurrences(line, <<">","=">>)
                   \cup Occurrences(line, <<"<","=">>)
    IN  IF occ = {} THEN line ELSE SubSeq(line, 1, Least(occ) - 1)

\* the lines of a requirements.txt that are neither blank nor comments
Requirements(content) ==
    {k \in 1..Len(LinesRead(content)) :
        LET line == Strip(content.lines[k])
        IN  line # <<>> /\ ~StartsWith(line, <<"#">>)}

\* C13: every line of requirements.txt that is not blank and not a comment
\* gives the entry keyed 'pip:' and the text of the trimmed line before its
\* first '==', '>=' or '<=', with the trimmed line as the value; blank and
\* comment lines give none.
C13_RequirementsKeyedByBareName ==
    structure # None =>
        \A i \in 1..Len(tree) :
            (tree[i].path = <<"r","e","q","u","i","r","e","m","e","n","t","s",".","t","x","t">> /\ Opens(tree[i])) =>
                LET c == tree[i].content
                    deps == structure.dependencies
                    KeyOf(k) == <<"p","i","p",":">> \o TextBeforeFirstOperator(Strip(c.lines[k]))
                IN  /\ {deps[j][1] : j \in KeysUnder(deps, <<"p","i","p",":">>)}
                           = {KeyOf(k) : k \in Requirements(c)}
                    /\ \A k \in Requirements(c) :
                           (\A m \in Requirements(c) : KeyOf(m) = KeyOf(k) => m <= k)
                               => DictGet(deps, KeyOf(k), <<>>) = Strip(c.lines[k])

\* the package.json of the tree when it loads
LoadedPackageJson == EntriesAt(tree, <<"p","a","c","k","a","g","e",".","j","s","o","n">>)[1].content.json

\* C14: a well-formed package.json gives exactly one entry 'npm:<name>' for
\* every name of its dependencies and devDependencies together, with the
\* version declared for the name (the devDependencies one when both declare
\* it), and no other npm entry; one declaring only left-pad 1.0.0 gives
\* exactly 'npm:left-pad' -> '1.0.0'.
C14_NpmEntriesAreTheUnion ==
    (structure # None /\ PackageJsonLoads(tree)) =>
        LET deps == structure.dependencies
            d == LoadedPackageJson.dependencies
            dev == LoadedPackageJson.devDependencies
            names == DictKeys(d) \cup DictKeys(dev)
            npm == KeysUnder(deps, <<"n","p","m",":">>)
        IN  /\ {deps[j][1] : j \in npm} = {<<"n","p","m",":">> \o n : n \in names}
            /\ Cardinality(npm) = Cardinality(names)
            /\ \A n \in names :
                   DictGet(deps, <<"n","p","m",":">> \o n, <<>>)
                       = DictGet(dev, n, DictGet(d, n, <<>>))
            /\ (d = << <<<<"l","e","f","t","-","p","a","d">>, <<"1",".","0",".","0">>>> >> /\ dev = <<>>) =>
                   SelectSeq(deps, LAMBDA p : StartsWith(p[1], <<"n","p","m",":">>))
                       = << <<<<"n","p","m",":","l","e","f","t","-","p","a","d">>, <<"1",".","0",".","0">>>> >>

\* a package.json whose two maps share a name has been read next to a
\* requirements.txt that gave entries of its own
C14_Witness ==
    /\ structure # None
    /\ PackageJsonLoads(tree)
    /\ DictKeys(LoadedPackageJson.dependencies)
           \cap DictKeys(LoadedPackageJson.devDependencies) # {}
    /\ Cardinality(KeysUnder(structure.dependencies, <<"n","p","m",":">>)) = 3
    /\ KeysUnder(structure.dependencies, <<"p","i","p",":">>) # {}

\* C15: a run in summary-only mode writes no artifact but ai_summary.md,
\* and has written it when it returns 0; a run in the default mode that
\* returns 0 has written all four artifacts.
C15_SummaryOnlyWritesSummary ==
    /\ summary_only =>
           /\ Range(written) \subseteq {"ai_summary.md"}
           /\ out_files \subseteq {"ai_summary.md"}
    /\ rc = <<0>> =>
           IF summary_only
           THEN written = <<"ai_summary.md">> /\ out_files = {"ai_summary.md"}
           ELSE /\ Range(written) = Range(ArtifactOrder)
                /\ Len(written) = Len(ArtifactOrder)
                /\ out_files = Range(ArtifactOrder)

\* a second summary-only run has returned 0 over the summary the first left
C15_Witness ==
    rc = <<0>> /\ summary_only /\ run = MaxRuns /\ Len(files) > 1

\* C16: on an existing root, an output directory that did not exist at the
\* start, at whatever depth below existing directories, exists once the
\* analyzer is constructed, and the run that returns 0 has written its
\* artifacts in it.
C16_MissingOutputDirCreated ==
    /\ (root_exists /\ pc \notin {"main", "construct"}) =>
           out_dir \notin {"absent", "no_parent"}
    /\ rc = <<0>> => (out_dir = "dir" /\ out_files = Range(Requested))

\* C17: during one run every file that gets a record is opened for reading
\* exactly once.
C17_EachFileReadOnce ==
    \A i \in 1..Len(opens) :
        (\E j \in 1..Len(files) : files[j].path = tree[i].path) =>
            Len(opens[i]) = 1

\* a dependency key without its ecosystem prefix, 'npm:' or 'pip:'
WithoutPrefix(key) ==
    IF StartsWith(key, <<"n","p","m",":">>) THEN SubSeq(key, Len(<<"n","p","m",":">>) + 1, Len(key))
    ELSE IF StartsWith(key, <<"p","i","p",":">>) THEN SubSeq(key, Len(<<"p","i","p",":">>) + 1, Len(key))
    ELSE key

\* whether a name holds one of the service words, letter case aside
NamesService(name) ==
    \E w \in {<<"a","p","i">>, <<"h","t","t","p">>, <<"r","e","q","u","e","s","t">>, <<"a","x","i","o","s">>, <<"f","e","t","c","h">>} :
        Contains(Lower(name), w)

\* C18: external_services lists, in the order of the dependency map, the
\* keys whose name without the ecosystem prefix holds 'api', 'http',
\* 'request', 'axios' or 'fetch' in any letter case; the prefix neither
\* causes nor prevents a match.  The context is examined when
\* create_resumable_context has returned it.
C18_ExternalServicesByBareName ==
    JustSynthesized =>
        /\ context.external_services
               = SelectSeq(DictKeyList(structure.dependencies),
                           LAMBDA key : NamesService(WithoutPrefix(key)))
        /\ ~NamesService(<<"n","p","m",":">>) /\ ~NamesService(<<"p","i","p",":">>)

\* some keys are listed, one of them for a name with a capital letter, and
\* some are left out
C18_Witness ==
    /\ context # None
    /\ \E i \in 1..Len(context.external_services) :
           Lower(context.external_services[i]) # context.external_services[i]
    /\ Len(context.external_services) >= 3
    /\ Len(context.external_services) < Len(structure.dependencies)

\* the place of a tag category in the order of detection
CategoryRank(cat) ==
    CASE cat = "API_ENDPOINT" -> 1
      [] cat = "DB_MODEL" -> 2
      [] cat = "REACT_COMPONENT" -> 3
      [] OTHER -> 0

\* the matches of one category as (category, value) pairs
TagsOf(cat, rules) ==
    LET all == Flatten(rules)
    IN  [i \in 1..Len(all) |-> [cat |-> cat, val |-> all[i]]]

\* C19: the pattern tags of a record are the first 10 of: the endpoint
\* matches rule by rule, then the model matches, then the ui-component
\* matches (detected for the JS/TS/React family only); so categories never
\* go back in a record and are among these three.  The records are
\* examined when the loop of analyze_repository has ended.
C19_TagsInDetectionOrder ==
    LoopDone => \A j \in 1..Len(files) :
        LET f == files[j]
            c == EntryOf(f).content
            detected ==
                TagsOf("API_ENDPOINT", c.api) \o TagsOf("DB_MODEL", c.db)
                \o (IF f.language \in {"javascript", "typescript", "react"}
                    THEN TagsOf("REACT_COMPONENT", c.comp) ELSE <<>>)
            tags == f.key_patterns
        IN  /\ Len(tags) = Min(Len(detected), 10)
            /\ \A i \in 1..Len(tags) : tags[i] = detected[i]
            /\ \A i \in 1..Len(tags) : CategoryRank(tags[i].cat) \in 1..3
            /\ \A i, k \in 1..Len(tags) :
                   i < k => CategoryRank(tags[i].cat) <= CategoryRank(tags[k].cat)

\* a record whose matches of the three categories exceed ten and whose
\* tags hold the three categories, next to a record of another language
\* whose content holds component-like text
C19_Witness ==
    /\ \E j \in 1..Len(files) :
           LET c == EntryOf(files[j]).content
           IN  /\ Len(files[j].key_patterns) = 10
               /\ Len(Flatten(c.api)) + Len(Flatten(c.db)) + Len(Flatten(c.comp)) > 10
               /\ {files[j].key_patterns[i].cat : i \in 1..Len(files[j].key_patterns)}
                      = {"API_ENDPOINT", "DB_MODEL", "REACT_COMPONENT"}
    /\ \E j \in 1..Len(files) :
           /\ files[j].language = "java"
           /\ Flatten(EntryOf(files[j]).content.comp) # <<>>

\* whether a sequence holds no element twice
NoDuplicates(s) == \A i, k \in 1..Len(s) : s[i] = s[k] => i = k

\* the frameworks with a signature matching the content
Matching(content) == {m[1] : m \in content.sig}

\* C20: the frameworks of the ProjectStructure hold no name twice and hold
\* a name exactly when the content of some file with a record matches one
\* of its signatures; detect_frameworks reports a framework once for a
\* file however many of its signatures match.  The list is examined when
\* the ProjectStructure is built.
C20_FrameworksDistinctUnion ==
    /\ pc = "context" =>
           /\ NoDuplicates(structure.frameworks)
           /\ Range(structure.frameworks)
                  = UNION {Matching(EntryOf(files[j]).content) : j \in 1..Len(files)}
    /\ LoopDone => \A i \in 1..Len(tree) :
           /\ NoDuplicates(detect_frameworks(tree[i].content))
           /\ Range(detect_frameworks(tree[i].content)) = Matching(tree[i].content)

\* a record whose content matches two signatures of one framework and two
\* frameworks, and a file without a record whose framework is not listed
C20_Witness ==
    /\ structure # None
    /\ \E j \in 1..Len(files) :
           LET sig == EntryOf(files[j]).content.sig
           IN  \E m, n \in sig : m[1] = n[1] /\ m[2] # n[2]
    /\ \E i \in 1..Len(tree) :
           /\ \A j \in 1..Len(files) : files[j].path # tree[i].path
           /\ Matching(tree[i].content) \ Range(structure.frameworks) # {}
    /\ Len(structure.frameworks) > 1

\* C21: the complexity score of a record is
\* min(min(L div 10, 50) + 2 * M, 100), L the newlines of the content plus
\* one and M the matches of the complexity patterns in all; records of the
\* same content at different paths score the same.  The records are
\* examined when the loop of analyze_repository has ended.
C21_ScoreFormula ==
    LoopDone =>
    /\ \A j \in 1..Len(files) :
           LET c == EntryOf(files[j]).content
               L == c.nl + 1
               M == MatchCount(c)
           IN  /\ files[j].lines = L
               /\ files[j].complexity_score
                      = Min(Min(L \div 10, 50) + 2 * M, 100)
    /\ \A i, j \in 1..Len(files) :
           EntryOf(files[i]).content = EntryOf(files[j]).content
               => files[i].complexity_score = files[j].complexity_score

\* two records of the same content at different paths whose length alone
\* would give more than 50 and whose score stays below 100
C21_Witness ==
    \E i, j \in 1..Len(files) :
        /\ i # j
        /\ files[i].path # files[j].path
        /\ EntryOf(files[i]).content = EntryOf(files[j]).content
        /\ files[i].lines \div 10 > 50
        /\ MatchCount(EntryOf(files[i]).content) > 0
        /\ files[i].complexity_score < 100

\* whether the path of some record holds the word, letter case aside
SomeRecordPathHas(word) ==
    \E j \in 1..Len(files) : Contains(Lower(files[j].path), word)

\* whether the path of some entry without a record holds the word
SomeOtherPathHas(word) ==
    \E i \in 1..Len(tree) :
        /\ Contains(Lower(tree[i].path), word)
        /\ \A j \in 1..Len(files) : files[j].path # tree[i].path

\* C22: architecture_patterns holds each of its four labels exactly when
\* the path of some record holds the label's word in any letter case,
\* each label on its own, and holds nothing else.  The context is examined
\* when create_resumable_context has returned it.
C22_ArchitectureLabelsFromPaths ==
    JustSynthesized =>
        LET labels == Range(context.architecture_patterns)
        IN  /\ "Model-View Architecture" \in labels <=> SomeRecordPathHas(<<"m","o","d","e","l","s">>)
            /\ "MVC Pattern" \in labels <=> SomeRecordPathHas(<<"c","o","n","t","r","o","l","l","e","r">>)
            /\ "Service Layer Pattern" \in labels <=> SomeRecordPathHas(<<"s","e","r","v","i","c","e">>)
            /\ "Component-Based Architecture" \in labels
                   <=> SomeRecordPathHas(<<"c","o","m","p","o","n","e","n","t">>)
            /\ labels \subseteq {"Model-View Architecture", "MVC Pattern",
                                  "Service Layer Pattern",
                                  "Component-Based Architecture"}
            /\ Len(context.architecture_patterns) = Cardinality(labels)

\* two labels are there, one of them for a path in capitals, and two are
\* not although entries without a record hold their words
C22_Witness ==
    /\ context # None
    /\ Range(context.architecture_patterns)
           = {"Model-View Architecture", "Service Layer Pattern"}
    /\ \E j \in 1..Len(files) :
           /\ Contains(Lower(files[j].path), <<"s","e","r","v","i","c","e">>)
           /\ ~Contains(files[j].path, <<"s","e","r","v","i","c","e">>)
    /\ SomeOtherPathHas(<<"c","o","n","t","r","o","l","l","e","r">>)
    /\ SomeOtherPathHas(<<"c","o","m","p","o","n","e","n","t">>)

\* whether the path string holds one of the configured ignore substrings
HoldsIgnoreSubstring(p) ==
    \E s \in { <<"n","o","d","e","_","m","o","d","u","l","e","s">>, <<".","g","i","t">>, <<"_","_","p","y","c","a","c","h","e","_","_">>, <<".","v","e","n","v">>, <<"v","e","n","v">>,
                <<"d","i","s","t">>, <<"b","u","i","l","d">>, <<".","n","e","x","t">>, <<".","n","u","x","t">>, <<"t","a","r","g","e","t">>, <<"b","i","n">>,
                <<"o","b","j">>, <<".","D","S","_","S","t","o","r","e">>, <<"*",".","p","y","c">>, <<"*",".","c","l","a","s","s">>, <<"*",".","o">> } :
        \E i \in 1..Len(p) :
            i + Len(s) - 1 <= Len(p) /\ \A k \in 1..Len(s) : p[i + k - 1] = s[k]

\* whether the base name of the path begins with '.'
HiddenName(p) == Name(p) # <<>> /\ Head(Name(p)) = "."

\* C23: should_ignore_path is true of a path exactly when the path string
\* holds a configured ignore substring or its base name begins with '.';
\* an entry it is true of has no record when the loop has ended.
C23_IgnoreExactly ==
    LoopDone =>
        \A i \in 1..Len(tree) :
            LET p == Join(repo_path, tree[i].path)
            IN  /\ should_ignore_path(p) <=> (HoldsIgnoreSubstring(p) \/ HiddenName(p))
                /\ (HoldsIgnoreSubstring(p) \/ HiddenName(p)) =>
                       \A j \in 1..Len(files) : files[j].path # tree[i].path

\* the tree held an entry ignored for a substring of its directory alone,
\* one ignored for its name alone, and one that got a record
C23_Witness ==
    /\ pc = "context"
    /\ \E i \in 1..Len(tree) :
           LET p == Join(repo_path, tree[i].path)
           IN  HoldsIgnoreSubstring(p) /\ ~HiddenName(p) /\ tree[i].kind = "file"
    /\ \E i \in 1..Len(tree) :
           LET p == Join(repo_path, tree[i].path)
           IN  ~HoldsIgnoreSubstring(p) /\ HiddenName(p)
                   /\ IsCodeSuffix(Suffix(tree[i].path))
    /\ files # <<>>

\* the languages the component rules are run for
ComponentLanguages == {"javascript", "typescript", "react"}

\* C24: a record whose language is not javascript, typescript or react
\* holds no ui-component tag, whatever its content, and every entry of
\* ui_components has a language among these three.
C24_ComponentsOnlyInJsFamily ==
    /\ \A j \in 1..Len(files) :
           files[j].language \notin ComponentLanguages =>
               \A i \in 1..Len(files[j].key_patterns) :
                   files[j].key_patterns[i].cat # "REACT_COMPONENT"
    /\ context # None =>
           \A i \in 1..Len(context.ui_components) :
               /\ context.ui_components[i].language \in ComponentLanguages
               /\ \E j \in 1..Len(files) :
                      /\ files[j].path = context.ui_components[i].file
                      /\ files[j].language = context.ui_components[i].language

\* the content of a record of another language holds component-like text
\* and fewer tags than the limit, and ui_components has entries
C24_Witness ==
    /\ context # None
    /\ context.ui_components # <<>>
    /\ \E j \in 1..Len(files) :
           /\ files[j].language \notin ComponentLanguages
           /\ Flatten(EntryOf(files[j]).content.comp) # <<>>
           /\ Len(files[j].key_patterns) < 10
           /\ files[j].key_patterns # <<>>

\* C25: when the root path itself holds an ignore substring, no entry below
\* it gets a record: total_files is 0, the language histogram and the
\* framework list are empty, and the run returns 0 all the same (it
\* returns 1 only after a write has failed).
C25_IgnoredRootYieldsNothing ==
    HoldsIgnoreSubstring(repo_path) =>
        /\ files = <<>>
        /\ structure # None =>
               /\ structure.total_files = 0
               /\ structure.total_lines = 0
               /\ structure.languages = <<>>
               /\ structure.frameworks = <<>>
        /\ (pc = "exit" /\ root_exists) =>
               \/ rc = <<0>> /\ written = Requested
               \/ /\ rc = <<1>>
                  /\ Len(written) < Len(Requested)
                  /\ diagnostics[Len(diagnostics)] = "Error during analysis"

\* a run below such a root has returned 0 over a tree with a readable code
\* file that the filter passes when the root is left out
C25_Witness ==
    /\ HoldsIgnoreSubstring(repo_path)
    /\ rc = <<0>>
    /\ structure # None /\ structure.total_files = 0
    /\ \E i \in 1..Len(tree) :
           /\ tree[i].kind = "file" /\ tree[i].readable
           /\ IsCodeSuffix(Suffix(tree[i].path))
           /\ ~HoldsIgnoreSubstring(tree[i].path) /\ ~HiddenName(tree[i].path)

\* whether the lower-cased extension of the path is a key of the table
KnownExtension(path) ==
    Lower(Suffix(path)) \in {e[1] : e \in code_extensions}

\* C26: a record comes only from an entry whose lower-cased extension is a
\* key of the extension table, and every readable file with such an
\* extension that the filter passes gets one; no record has language
\* 'text' and the histogram has no 'text' key, although detect_language
\* gives 'text' for the entries with another extension.
C26_NoTextRecords ==
    /\ \A j \in 1..Len(files) :
           KnownExtension(files[j].path) /\ files[j].language # "text"
    /\ "text" \notin DictKeys(languages)
    /\ structure # None => "text" \notin DictKeys(structure.languages)
    /\ LoopDone =>
           \A i \in 1..Len(tree) :
               IF KnownExtension(tree[i].path)
               THEN (/\ tree[i].kind = "file"
                     /\ tree[i].readable
                     /\ ~HiddenName(tree[i].path)
                     /\ ~HoldsIgnoreSubstring(Join(repo_path, tree[i].path)))
                        => \E j \in 1..Len(files) : files[j].path = tree[i].path
               ELSE /\ detect_language(tree[i].path) = "text"
                    /\ \A j \in 1..Len(files) : files[j].path # tree[i].path

\* a readable file with an unknown extension that the filter passes, next
\* to a record whose extension is written in capitals
C26_Witness ==
    /\ pc = "context"
    /\ \E i \in 1..Len(tree) :
           /\ ~KnownExtension(tree[i].path)
           /\ Suffix(tree[i].path) # <<>>
           /\ tree[i].kind = "file" /\ tree[i].readable
           /\ ~HiddenName(tree[i].path)
           /\ ~HoldsIgnoreSubstring(Join(repo_path, tree[i].path))
    /\ \E j \in 1..Len(files) : Lower(files[j].file_type) # files[j].file_type

\* the names the first match of each export rule gives, rule by rule
FirstMatchNames(exports) ==
    (IF exports[1] = <<>> THEN <<>> ELSE Head(exports[1]))
    \o (IF exports[2] = <<>> THEN <<>> ELSE Head(exports[2]))
    \o (IF exports[3] = <<>> THEN <<>> ELSE Head(exports[3]))

\* C27: in every record exports equals functions, the callable
\* declarations cut to 20; in a javascript, typescript or react record
\* classes holds the names of the export rules, those of the first match
\* of each rule only.
C27_ExportsAreFunctions ==
    \A j \in 1..Len(files) :
        LET f == files[j]
            c == EntryOf(f).content
        IN  /\ f.exports = f.functions
            /\ Len(f.functions) <= 20
            /\ f.language \in ComponentLanguages =>
                   /\ IsPrefixOfLength(f.functions, Flatten(c.js.functions), 20)
                   /\ IsPrefixOfLength(f.classes, FirstMatchNames(c.js.exports), 20)

\* a record of the family with an export rule that matched twice, whose
\* classes differ from its functions
C27_Witness ==
    \E j \in 1..Len(files) :
        LET f == files[j]
            c == EntryOf(f).content
        IN  /\ f.language \in ComponentLanguages
            /\ \E r \in 1..3 : Len(c.js.exports[r]) > 1
            /\ f.classes # <<>> /\ f.exports # <<>>
            /\ f.classes # f.exports
            /\ Len(Flatten(c.js.functions)) > 20

\* the lines of requirements.txt the loop has handled, trimmed, without
\* the blank and the comment lines
HandledRequirements ==
    LET req == EntriesAt(tree, <<"r","e","q","u","i","r","e","m","e","n","t","s",".","t","x","t">>)
    IN  IF req = <<>> \/ ~Opens(req[1]) THEN <<>>
        ELSE LET trimmed == [k \in 1..Len(LinesRead(req[1].content)) |->
                                Strip(req[1].content.lines[k])]
             IN  SelectSeq(trimmed, LAMBDA l : l # <<>> /\ ~StartsWith(l, <<"#">>))

\* C28: the dependency map has one entry per key and the later source
\* wins: a name in both maps of package.json carries the devDependencies
\* value, requirements lines with one bare name leave the last of them,
\* and entries under 'npm:' and under 'pip:' never replace each other.
C28_LaterSourcesWin ==
    structure # None =>
        LET deps == structure.dependencies
            lines == HandledRequirements
            names == IF PackageJsonLoads(tree)
                     THEN DictKeys(LoadedPackageJson.dependencies)
                              \cup DictKeys(LoadedPackageJson.devDependencies)
                     ELSE {}
        IN  /\ NoDuplicates(DictKeyList(deps))
            /\ \A n \in names :
                   n \in DictKeys(LoadedPackageJson.devDependencies) =>
                       DictGet(deps, <<"n","p","m",":">> \o n, <<>>)
                           = DictGet(LoadedPackageJson.devDependencies, n, <<>>)
            /\ \A k \in 1..Len(lines) :
                   (\A m \in (k + 1)..Len(lines) : BareName(lines[m]) # BareName(lines[k]))
                       => DictGet(deps, <<"p","i","p",":">> \o BareName(lines[k]), <<>>) = lines[k]
            /\ Len(deps) = Cardinality(names)
                               + Cardinality({BareName(lines[k]) : k \in 1..Len(lines)})

\* a name declared in both maps with different versions, two requirements
\* lines with one bare name, and that name under both prefixes
C28_Witness ==
    /\ structure # None
    /\ PackageJsonLoads(tree)
    /\ \E n \in DictKeys(LoadedPackageJson.dependencies)
                  \cap DictKeys(LoadedPackageJson.devDependencies) :
           /\ DictGet(LoadedPackageJson.dependencies, n, <<>>)
                  # DictGet(LoadedPackageJson.devDependencies, n, <<>>)
           /\ <<"p","i","p",":">> \o n \in DictKeys(structure.dependencies)
           /\ <<"n","p","m",":">> \o n \in DictKeys(structure.dependencies)
    /\ \E k, m \in 1..Len(HandledRequirements) :
           /\ k < m
           /\ BareName(HandledRequirements[k]) = BareName(HandledRequirements[m])
           /\ HandledRequirements[k] # HandledRequirements[m]

\* C29: in the default mode the artifacts are written in the order
\* files_analysis.json, project_structure.json, ai_context.json,
\* ai_summary.md, and only once the whole tree is analysed; when a write
\* fails the run returns 1 with the earlier artifacts written and kept and
\* the later ones not written.
C29_FixedOrderNoRollback ==
    ~summary_only =>
        LET order == << "files_analysis.json", "project_structure.json",
                        "ai_context.json", "ai_summary.md" >>
        IN  /\ Len(written) <= Len(order)
            /\ \A i \in 1..Len(written) : written[i] = order[i]
            /\ Range(written) \subseteq out_files
            /\ written # <<>> =>
                   /\ pc \in {"save", "exit"}
                   /\ idx = Len(tree) + 1
                   /\ structure # None /\ context # None
            /\ (pc = "exit" /\ root_exists) =>
                   IF Len(written) = Len(order) THEN rc = <<0>> ELSE rc = <<1>>
            /\ run = 1 =>
                   /\ Range(written) \subseteq out_files
                   /\ \A i \in (Len(written) + 2)..Len(order) : order[i] \notin out_files
                   /\ pc = "save" => out_files = Range(written)

\* a first run in the default mode has returned 1 with two artifacts
\* written and two not
C29_Witness ==
    /\ ~summary_only
    /\ run = 1
    /\ pc = "exit" /\ rc = <<1>>
    /\ written = << "files_analysis.json", "project_structure.json" >>
    /\ out_files = {"files_analysis.json", "project_structure.json"}
    /\ files # <<>>

\* C30: total_lines is the sum of lines over the records, every record has
\* lines >= 1, an empty file counting one line, and so total_lines is at
\* least total_files.
C30_TotalLinesIsSum ==
    /\ \A j \in 1..Len(files) :
           /\ files[j].lines >= 1
           /\ files[j].lines = EntryOf(files[j]).content.nl + 1
    /\ total_lines = SumSeq([j \in 1..Len(files) |-> files[j].lines])
    /\ structure # None =>
           /\ structure.total_lines = SumSeq([j \in 1..Len(files) |-> files[j].lines])
           /\ structure.total_files = Len(files)
           /\ structure.total_lines >= structure.total_files

\* the records of an empty file and of a longer one have been summed
C30_Witness ==
    /\ structure # None
    /\ \E j \in 1..Len(files) :
           EntryOf(files[j]).content.nl = 0 /\ files[j].size > 0
    /\ structure.total_lines > structure.total_files
    /\ structure.total_files >= 3

=============================================================================
